---- MODULE Spec2Model ----
(***************************************************************************)
(* A model of the log ingestion and search engine of claude-explorer:      *)
(*   - parseConversationStream  (src/lib/server/conversation-parser.ts)    *)
(*   - FastProjectSearchIndex   (src/lib/project-search-index-fast.ts)     *)
(*   - ProjectSearchIndex       (src/lib/project-search-index.ts)          *)
(*   - the project search route and its index cache                        *)
(*                     (src/app/api/projects/[projectId]/stats/route.ts)   *)
(*   - the project statistics route and its snapshot file (same file)      *)
(*   - the conversation list route                                         *)
(*                     (src/app/api/projects/[id]/conversations/route.ts)  *)
(*   - the global search route        (src/app/api/search-fast/route.ts)   *)
(*   - the search of the Home and Project pages and their SearchBar        *)
(*                     (src/app/page.tsx, src/components/SearchBar.tsx)    *)
(*   - the hook useKeyboardNavigation (src/hooks/useKeyboardNavigation.ts) *)
(* Text is modelled character by character: a string is a sequence of      *)
(* one-character strings, so that trimming, lower-casing, truncation,      *)
(* tokenisation and word boundaries are computed, not assumed.             *)
(* Timestamps are integers; 0 stands for a missing (falsy) timestamp.      *)
(***************************************************************************)
EXTENDS Integers, Sequences, FiniteSets, TLC

VARIABLES
    \* ---- parseConversationStream (one call) ----
    pc,                    \* "reading" while inside the for-await loop, "done" after return
    log,                   \* the lines the stream has delivered so far
    summary,               \* let summary = null
    messages,              \* const messages = []
    sideChainDepth,        \* let sideChainDepth = 0
    lineNumber,            \* let lineNumber = 0
    lastMessageTimestamp,  \* let lastMessageTimestamp = new Date().toISOString()
    conversation,          \* the returned Conversation (NoValue until the call returns)
    now,                   \* the clock reading of `new Date()` when the call started
    reparsed,              \* the Conversation returned by a second call on the same log
    \* ---- FastProjectSearchIndex (one instance) ----
    entries,               \* private entries: IndexEntry[]
    conversationMap,       \* private conversationMap: Map<string, Conversation>
    builds,                \* number of buildIndex calls made so far
    call,                  \* the last call made on the index and its outcome
    indexed,               \* the conversations handed to the latest buildIndex call
    hadEntries,            \* whether the latest buildIndex call found entries to clear
    \* ---- ProjectSearchIndex (one instance) ----
    psiEntries,            \* private entries: IndexEntry[] (with token sets)
    psiConversationMap,    \* private conversationMap
    psiPending,            \* buildIndex calls suspended at `await Promise.all(...)`
    psiCall,               \* the last search call on the index and its result
    \* ---- the machine: clock and project directories ----
    clock,                 \* Date.now()
    projectFiles,          \* the files of each project directory, in readdir order
    dirMtime,              \* mtimeMs of each project directory
    snapshot,              \* the file .stats_cache.json of each project directory
    \* ---- project search route ----
    indexCache,            \* const indexCache = new Map<string, { index, timestamp }>()
    inflight,              \* the requests suspended while their index is being rebuilt
    response,              \* the response sent last by the route
    \* ---- project statistics route ----
    statsPending,          \* the requests that have read the logs and not yet answered
    statsResponse,         \* the response sent last by the route
    \* ---- conversation list route ----
    listResponse,          \* the response sent last by the route
    \* ---- global search route ----
    globalResponse,        \* the response sent last by the route
    \* ---- the Home / Project page and its SearchBar ----
    page,                  \* the state and refs of the page component
    bar,                   \* the state of the SearchBar component
    edits,                 \* number of edits the user has made in the search bar
    \* ---- useKeyboardNavigation (one use of the hook) ----
    nav                    \* props, state and registered listener of the hook

parserVars == <<pc, log, summary, messages, sideChainDepth, lineNumber,
                lastMessageTimestamp, conversation, now, reparsed>>
fastVars   == <<entries, conversationMap, builds, call, indexed, hadEntries>>
psiVars    == <<psiEntries, psiConversationMap, psiPending, psiCall>>
diskVars   == <<clock, projectFiles, dirMtime, snapshot>>
cacheVars  == <<indexCache, inflight, response>>
statsVars  == <<statsPending, statsResponse>>
listVars   == <<listResponse>>
libVars    == <<parserVars, fastVars, psiVars>>
globalVars == <<globalResponse>>
serverVars == <<diskVars, cacheVars, statsVars, listVars>>
pageVars   == <<page, bar, edits>>
navVars    == <<nav>>
clientVars == <<globalVars, pageVars, navVars>>
vars       == <<libVars, serverVars, clientVars>>

(***************************************************************************)
(* Bounds of the model.                                                    *)
(***************************************************************************)
MaxLines       == 3   \* log length over the full line alphabet
MaxMarkerLines == 6   \* log length over the sidechain alphabet (markers and messages)
MaxBuilds      == 2   \* buildIndex calls on one index instance
MaxPending     == 2   \* buildIndex calls of ProjectSearchIndex in flight together
MaxInFlight    == 1   \* requests of one route reading the logs together

(***************************************************************************)
(* Characters and strings.                                                 *)
(***************************************************************************)
NoValue == [none |-> TRUE]

WhiteSpace == {" ", "\n"}
Punctuation == {"!", "@", "#", "$", "%", ".", ",", "?"}

\* \w of a JavaScript regular expression: letters, digits and underscore.
\* Every character of the model that is neither white space nor punctuation
\* is a letter or a digit.
IsWordChar(c) == c \notin WhiteSpace /\ c \notin Punctuation

\* String.prototype.toLowerCase, one character.
ToLowerChar(c) ==
    CASE c = "A" -> "a"
      [] c = "B" -> "b"
      [] c = "C" -> "c"
      [] c = "T" -> "t"
      [] OTHER -> c

ToLowerCase(s) == [i \in 1..Len(s) |-> ToLowerChar(s[i])]

Max(a, b) == IF a >= b THEN a ELSE b
Min(a, b) == IF a <= b THEN a ELSE b

\* String.prototype.substring(from, to) with 0-based, end-exclusive indices.
Substring(s, from, to) == SubSeq(s, Min(from, Len(s)) + 1, Min(to, Len(s)))

RECURSIVE TrimStart(_)
TrimStart(s) ==
    IF s = <<>> THEN <<>>
    ELSE IF Head(s) \in WhiteSpace THEN TrimStart(Tail(s)) ELSE s

RECURSIVE TrimEnd(_)
TrimEnd(s) ==
    IF s = <<>> THEN <<>>
    ELSE IF s[Len(s)] \in WhiteSpace THEN TrimEnd(SubSeq(s, 1, Len(s) - 1)) ELSE s

\* String.prototype.trim
Trim(s) == TrimEnd(TrimStart(s))

\* String.prototype.includes
Includes(text, term) ==
    \E i \in 0..(Len(text) - Len(term)) : SubSeq(text, i + 1, i + Len(term)) = term

\* Array.prototype.join(' ')
RECURSIVE JoinSpace(_)
JoinSpace(parts) ==
    IF parts = <<>> THEN <<>>
    ELSE IF Len(parts) = 1 THEN parts[1]
    ELSE parts[1] \o <<" ">> \o JoinSpace(Tail(parts))

Ellipsis == <<".", ".", ".">>

(***************************************************************************)
(* parseConversationStream: the records of a log.                          *)
(* A line is blank, unparsable ("bad": JSON.parse throws, or the parsed    *)
(* value has no readable .type), or a parsed record `data`.                *)
(***************************************************************************)
NoContent         == [shape |-> "none",   str |-> <<>>, blocks |-> <<>>]
StringContent(s)  == [shape |-> "string", str |-> s,    blocks |-> <<>>]
BlocksContent(bs) == [shape |-> "blocks", str |-> <<>>, blocks |-> bs]
TextBlock(t)      == [type |-> "text", text |-> t]
ToolUseBlock      == [type |-> "tool_use", text |-> <<>>]

BaseRecord ==
    [kind |-> "rec", type |-> "other", uuid |-> "", timestamp |-> 0,
     isSidechain |-> FALSE, summary |-> <<>>, content |-> <<>>, message |-> NoContent]

BlankLine == [BaseRecord EXCEPT !.kind = "blank"]
BadLine   == [BaseRecord EXCEPT !.kind = "bad"]

SummaryRecord(type, text, ts) ==
    [BaseRecord EXCEPT !.type = type, !.summary = text, !.timestamp = ts]
MarkerRecord(type) == [BaseRecord EXCEPT !.type = type]
MessageRecord(type, uuid, ts, sc, content) ==
    [BaseRecord EXCEPT !.type = type, !.uuid = uuid, !.timestamp = ts,
                       !.isSidechain = sc, !.message = content]
SystemRecord(uuid, ts, text) ==
    [BaseRecord EXCEPT !.type = "system", !.uuid = uuid, !.timestamp = ts, !.content = text]

\* The length at which a synthesized summary is cut.
SummaryMaxLen == 50

Letters == <<"a", "b", "c", "d", "e">>
\* A text of n letters, no two neighbours equal.
LongText(n) == [i \in 1..n |-> Letters[(i % 5) + 1]]

TextAtLimit   == LongText(SummaryMaxLen)
TextOverLimit == LongText(SummaryMaxLen + 1)
TextPadded    == <<" ">> \o LongText(SummaryMaxLen) \o <<"\n">>
TextPaddedOver == <<" ", " ">> \o LongText(SummaryMaxLen + 2)
TextShort     == <<"h", "i">>
TextBlank     == <<" ", "\n">>

SidechainStartLine == MarkerRecord("sidechain.start")
SidechainEndLine   == MarkerRecord("sidechain.end")
UserShortLine      == MessageRecord("user", "u1", 1, TRUE, StringContent(TextShort))
AssistantLine      == MessageRecord("assistant", "a1", 2, FALSE,
                                    BlocksContent(<<TextBlock(TextShort), ToolUseBlock>>))

\* The lines of the sidechain scenarios.
MarkerLines == {SidechainStartLine, SidechainEndLine, UserShortLine, AssistantLine}

\* The full line alphabet.
Lines ==
    MarkerLines \cup
    { BlankLine, BadLine,
      SummaryRecord("summary", <<"s", "1">>, 0),
      SummaryRecord("conversation.summary", <<"s", "2">>, 3),
      MarkerRecord("other"),
      SystemRecord("y1", 4, <<"o", "k">>),
      SystemRecord("y2", 0, <<>>),
      MessageRecord("user", "u2", 0, FALSE, StringContent(TextAtLimit)),
      MessageRecord("user", "u3", 5, FALSE, StringContent(TextOverLimit)),
      MessageRecord("user", "u4", 5, FALSE, StringContent(TextPadded)),
      MessageRecord("user", "u5", 5, FALSE, StringContent(TextPaddedOver)),
      MessageRecord("user", "u6", 5, FALSE, StringContent(TextBlank)),
      MessageRecord("user", "u7", 5, FALSE, NoContent),
      MessageRecord("user", "u8", 5, FALSE, BlocksContent(<<ToolUseBlock>>)),
      MessageRecord("user", "u9", 5, FALSE,
                    BlocksContent(<<ToolUseBlock, TextBlock(TextPaddedOver)>>)),
      MessageRecord("user", "u11", 5, FALSE, BlocksContent(<<TextBlock(TextBlank)>>)),
      MessageRecord("user", "u10", 5, FALSE,
                    BlocksContent(<<TextBlock(TextShort), TextBlock(TextOverLimit)>>)) }

\* new Date().toISOString() at the start of the call.
Nows == {8, 9}

\* filePath.split('/').pop()?.replace('.jsonl', '')
conversationId == <<"c", "0", "n", "v", "1", "2", "3", "4", "5">>

ConversationPrefix ==
    <<"C", "o", "n", "v", "e", "r", "s", "a", "t", "i", "o", "n", " ">>

(***************************************************************************)
(* parseConversationStream: the loop body and the code after the loop.     *)
(***************************************************************************)
IsIndexedTextBlock(b) == b.type = "text" /\ b.text # <<>>
BlockText(b) == b.text

\* Array.prototype.map(item => item.text)
BlockTexts(blocks) == [i \in 1..Len(blocks) |-> BlockText(blocks[i])]

IsSummaryType(t) == t = "conversation.summary" \/ t = "summary"
IsMessageType(t) == t = "user" \/ t = "assistant" \/ t = "system"

\* a || b on timestamps: a missing timestamp is falsy.
OrElse(a, b) == IF a # 0 THEN a ELSE b

\* sideChainDepth++
SidechainStart(depth) == depth + 1

SidechainEnd_noFloor(depth) == depth - 1
\* sideChainDepth = Math.max(0, sideChainDepth - 1)
SidechainEnd(depth) == Max(0, depth - 1)

\* { ...data, isSidechain: sideChainDepth > 0 }
TagMessage(data, depth) == [data EXCEPT !.isSidechain = depth > 0]

\* { uuid, timestamp, type: 'system', content: data.content || '', ...(data as any) }:
\* the trailing spread restores every field of data, and a missing content is ''.
SystemMessage(data) == [data EXCEPT !.type = "system"]

\* messages.push(m)
PushMessage(msgs, m) == Append(msgs, m)

OnParseError_abort(st) == [st EXCEPT !.messages = <<>>]
\* catch (e) { console.warn(...) }: the line is dropped, the state is kept.
OnParseError(st) == st

\* One iteration of `for await (const line of rl)` on the parser's locals
\* st = [summary, messages, sideChainDepth, lastMessageTimestamp].
ProcessLine(st, line) ==
    IF line.kind = "blank" THEN st
    ELSE IF line.kind = "bad" THEN OnParseError(st)
    ELSE IF IsSummaryType(line.type) THEN [st EXCEPT !.summary = line]
    ELSE IF line.type = "sidechain.start"
        THEN [st EXCEPT !.sideChainDepth = SidechainStart(st.sideChainDepth)]
    ELSE IF line.type = "sidechain.end"
        THEN [st EXCEPT !.sideChainDepth = SidechainEnd(st.sideChainDepth)]
    ELSE IF line.type = "user" \/ line.type = "assistant"
        THEN [st EXCEPT
                !.messages = PushMessage(st.messages, TagMessage(line, st.sideChainDepth)),
                !.lastMessageTimestamp = OrElse(line.timestamp, st.lastMessageTimestamp)]
    ELSE IF line.type = "system"
        THEN [st EXCEPT
                !.messages = PushMessage(st.messages, SystemMessage(line)),
                !.lastMessageTimestamp = OrElse(line.timestamp, st.lastMessageTimestamp)]
    ELSE st

\* The truncation applied to the text as stored, white space included.
TruncateSummary_untrimmed(text) ==
    IF Len(text) > SummaryMaxLen
    THEN Substring(text, 0, SummaryMaxLen) \o Ellipsis
    ELSE text
\* t.trim().length > 50 ? t.trim().substring(0, 50) + '...' : t.trim()
TruncateSummary(text) ==
    IF Len(Trim(text)) > SummaryMaxLen
    THEN Substring(Trim(text), 0, SummaryMaxLen) \o Ellipsis
    ELSE Trim(text)

IsUser(m) == m.type = "user"
IsTextBlock(b) == b.type = "text"

\* messages.find(m => m.type === 'user'): the position of the first user
\* message, 0 when find returns undefined.
FirstUserIndex(msgs) ==
    IF \E i \in 1..Len(msgs) : IsUser(msgs[i])
    THEN CHOOSE i \in 1..Len(msgs) :
            IsUser(msgs[i]) /\ \A j \in 1..(i - 1) : ~IsUser(msgs[j])
    ELSE 0

\* content.find(item => item.type === 'text' && 'text' in item): the position
\* of the first text block, 0 when find returns undefined.
FirstTextBlockIndex(blocks) ==
    IF \E i \in 1..Len(blocks) : IsTextBlock(blocks[i])
    THEN CHOOSE i \in 1..Len(blocks) :
            IsTextBlock(blocks[i]) /\ \A j \in 1..(i - 1) : ~IsTextBlock(blocks[j])
    ELSE 0

\* The text of the synthesized summary (the block under `if (!summary)`).
SummaryText(msgs, id) ==
    LET fallback == ConversationPrefix \o Substring(id, 0, 8)
        u  == FirstUserIndex(msgs)
    IN  IF u = 0 THEN fallback
        ELSE LET content == msgs[u].message
             IN  IF content.shape = "string" /\ Trim(content.str) # <<>>
                     THEN TruncateSummary(content.str)
                 ELSE IF content.shape = "blocks"
                     THEN LET b == FirstTextBlockIndex(content.blocks)
                          IN  IF b = 0 THEN fallback
                              ELSE TruncateSummary(content.blocks[b].text)
                 ELSE fallback

\* summary = { type: 'conversation.summary', summary: summaryText,
\*             timestamp: firstUserMessage?.timestamp || lastMessageTimestamp }
SynthesizedSummary(msgs, id, lastTs) ==
    LET u == FirstUserIndex(msgs)
    IN  [BaseRecord EXCEPT
            !.type = "conversation.summary",
            !.summary = SummaryText(msgs, id),
            !.timestamp = OrElse(IF u = 0 THEN 0 ELSE msgs[u].timestamp, lastTs)]

\* The Conversation with lastUpdated taken from the messages alone.
BuildConversation_messageStamp(sum, msgs, id, lastTs) ==
    LET s == IF sum = NoValue THEN SynthesizedSummary(msgs, id, lastTs) ELSE sum
    IN  [id |-> id, summary |-> s, messages |-> msgs, messageCount |-> Len(msgs),
         lastUpdated |-> lastTs, projectId |-> <<>>]
\* The Conversation returned by the call.
BuildConversation(sum, msgs, id, lastTs) ==
    LET s == IF sum = NoValue THEN SynthesizedSummary(msgs, id, lastTs) ELSE sum
    IN  [id |-> id, summary |-> s, messages |-> msgs, messageCount |-> Len(msgs),
         lastUpdated |-> OrElse(s.timestamp, lastTs), projectId |-> <<>>]

\* extractMessageText (the helper exported next to the parser)
extractMessageText(data) ==
    IF data.type = "system" /\ data.content # <<>> THEN data.content
    ELSE IF data.message.shape = "string" THEN data.message.str
    ELSE IF data.message.shape = "blocks"
        THEN JoinSpace(BlockTexts(SelectSeq(data.message.blocks, IsIndexedTextBlock)))
    ELSE <<>>

ParserInit ==
    /\ pc = "reading"
    /\ log = <<>>
    /\ summary = NoValue
    /\ messages = <<>>
    /\ sideChainDepth = 0
    /\ lineNumber = 0
    /\ now \in Nows
    /\ lastMessageTimestamp = now
    /\ conversation = NoValue
    /\ reparsed = NoValue

\* The stream delivers one more line and the loop body runs on it.
ReadLine(line) ==
    /\ pc = "reading"
    /\ \/ Len(log) < MaxLines
       \/ /\ Len(log) < MaxMarkerLines
          /\ line \in MarkerLines
          /\ \A i \in 1..Len(log) : log[i] \in MarkerLines
    /\ LET st == ProcessLine([summary |-> summary, messages |-> messages,
                              sideChainDepth |-> sideChainDepth,
                              lastMessageTimestamp |-> lastMessageTimestamp], line)
       IN  /\ summary' = st.summary
           /\ messages' = st.messages
           /\ sideChainDepth' = st.sideChainDepth
           /\ lastMessageTimestamp' = st.lastMessageTimestamp
    /\ log' = Append(log, line)
    /\ lineNumber' = lineNumber + 1
    /\ UNCHANGED <<pc, conversation, now, reparsed>>
    /\ UNCHANGED <<fastVars, psiVars, serverVars, clientVars>>

\* The stream ends: the loop exits, the summary is synthesized if needed and
\* the conversation is returned.
EndOfFile ==
    /\ pc = "reading"
    /\ conversation' = BuildConversation(summary, messages, conversationId,
                                         lastMessageTimestamp)
    /\ summary' = conversation'.summary
    /\ pc' = "done"
    /\ UNCHANGED <<log, messages, sideChainDepth, lineNumber, lastMessageTimestamp,
                   now, reparsed>>
    /\ UNCHANGED <<fastVars, psiVars, serverVars, clientVars>>

\* The loop of parseConversationStream run over a whole file.
RECURSIVE ParseLines(_, _)
ParseLines(st, lines) ==
    IF lines = <<>> THEN st
    ELSE ParseLines(ProcessLine(st, Head(lines)), Tail(lines))

\* parseConversationStream(filePath) called at clock reading t on a file
\* holding `lines`, id being the conversation id derived from filePath.
parseConversationStream(id, lines, t) ==
    LET st == ParseLines([summary |-> NoValue, messages |-> <<>>,
                          sideChainDepth |-> 0, lastMessageTimestamp |-> t], lines)
    IN  BuildConversation(st.summary, st.messages, id, st.lastMessageTimestamp)

\* The caller parses the same, unchanged file again at clock reading t.
Reparse(t) ==
    /\ pc = "done"
    /\ reparsed' = parseConversationStream(conversationId, log, t)
    /\ pc' = "reparsed"
    /\ UNCHANGED <<log, summary, messages, sideChainDepth, lineNumber,
                   lastMessageTimestamp, conversation, now>>
    /\ UNCHANGED <<fastVars, psiVars, serverVars, clientVars>>

(***************************************************************************)
(* Search: text extraction, query processing and matching.                 *)
(***************************************************************************)

\* FastProjectSearchIndex.extractSearchableText
extractSearchableText(message) ==
    LET content == message.message
    IN  IF content.shape = "none" \/ (content.shape = "string" /\ content.str = <<>>)
            THEN IF message.type = "system" /\ message.content # <<>>
                 THEN message.content
                 ELSE <<>>
        ELSE IF content.shape = "string" THEN content.str
        ELSE JoinSpace(BlockTexts(SelectSeq(content.blocks, IsIndexedTextBlock)))

\* query.split(/\s+/).filter(term => term.length > 0): the maximal runs of
\* characters that are not white space, in order.
RECURSIVE SplitWhitespace(_)
SplitWhitespace(s) ==
    IF s = <<>> THEN <<>>
    ELSE IF Head(s) \in WhiteSpace THEN SplitWhitespace(Tail(s))
    ELSE LET stop == IF \E i \in 1..Len(s) : s[i] \in WhiteSpace
                     THEN CHOOSE i \in 1..Len(s) :
                            /\ s[i] \in WhiteSpace
                            /\ \A j \in 1..(i - 1) : s[j] \notin WhiteSpace
                     ELSE Len(s) + 1
         IN  <<SubSeq(s, 1, stop - 1)>> \o SplitWhitespace(SubSeq(s, stop, Len(s)))

\* The terms of a query: the whole lower-cased, trimmed query in exact mode,
\* its white-space separated words in regex (partial) mode.
queryTerms(query, mode) ==
    IF mode = "exact" THEN <<Trim(ToLowerCase(query))>>
    ELSE SplitWhitespace(ToLowerCase(query))

\* The characters the escaping replace() puts a backslash before.
RegexSpecial == {".", "*", "+", "?", "^", "$", "{", "}", "(", ")", "|", "[", "]", "\\"}

\* s.replace(/[.*+?^${}()|[\]\\]/g, '\\$&')
RECURSIVE escapeRegExp(_)
escapeRegExp(s) ==
    IF s = <<>> THEN <<>>
    ELSE (IF Head(s) \in RegexSpecial THEN <<"\\", Head(s)>> ELSE <<Head(s)>>)
         \o escapeRegExp(Tail(s))

\* The atoms of a regular expression source: an escaped character and an
\* ordinary character stand for themselves, an unescaped dot for any
\* character but a line terminator.
RECURSIVE CompilePattern(_)
CompilePattern(src) ==
    IF src = <<>> THEN <<>>
    ELSE IF Head(src) = "\\" /\ Len(src) >= 2
        THEN <<[any |-> FALSE, ch |-> src[2]]>> \o CompilePattern(SubSeq(src, 3, Len(src)))
    ELSE IF Head(src) = "."
        THEN <<[any |-> TRUE, ch |-> "."]>> \o CompilePattern(Tail(src))
    ELSE <<[any |-> FALSE, ch |-> Head(src)]>> \o CompilePattern(Tail(src))

\* An atom against a character under the 'i' flag.
AtomMatches(atom, c) ==
    IF atom.any THEN c # "\n" ELSE ToLowerChar(atom.ch) = ToLowerChar(c)

\* \b at offset p of text (0 = before the first character): exactly one of
\* the two neighbouring positions holds a word character.
WordAt(text, i) == i >= 1 /\ i <= Len(text) /\ IsWordChar(text[i])
WordBoundary(text, p) == WordAt(text, p) # WordAt(text, p + 1)

exactRegexTest_noBoundary(text, term) ==
    LET atoms == CompilePattern(escapeRegExp(term))
    IN  \E p \in 0..(Len(text) - Len(atoms)) :
            \A k \in 1..Len(atoms) : AtomMatches(atoms[k], text[p + k])
\* new RegExp(`\\b${escapedQuery}\\b`, 'i').test(text)
exactRegexTest(text, term) ==
    LET atoms == CompilePattern(escapeRegExp(term))
    IN  \E p \in 0..(Len(text) - Len(atoms)) :
            /\ WordBoundary(text, p)
            /\ \A k \in 1..Len(atoms) : AtomMatches(atoms[k], text[p + k])
            /\ WordBoundary(text, p + Len(atoms))

allTermsFound_any(textLower, terms) ==
    \E k \in 1..Len(terms) : Includes(textLower, terms[k])
\* for (const term of queryTerms) if (!entry.textLower.includes(term)) ...
allTermsFound(textLower, terms) ==
    \A k \in 1..Len(terms) : Includes(textLower, terms[k])

\* The value of `matches` for one entry.
entryMatches(entry, terms, mode) ==
    IF mode = "exact" THEN exactRegexTest(entry.text, terms[1])
    ELSE allTermsFound(entry.textLower, terms)

(***************************************************************************)
(* FastProjectSearchIndex: buildIndex and search.                          *)
(***************************************************************************)
Conv(id, lastUpdated, msgs) == [id |-> id, lastUpdated |-> lastUpdated, messages |-> msgs]

IndexEntry(conv, message) ==
    [conversationId |-> conv.id, messageId |-> message.uuid,
     text |-> extractSearchableText(message),
     textLower |-> ToLowerCase(extractSearchableText(message)),
     timestamp |-> message.timestamp]

HasSearchableText(message) == extractSearchableText(message) # <<>>

\* The entries of one conversation: one per message with a non-empty text.
ConversationEntries(conv) ==
    LET kept == SelectSeq(conv.messages, HasSearchableText)
    IN  [i \in 1..Len(kept) |-> IndexEntry(conv, kept[i])]

RECURSIVE BuildEntries(_)
BuildEntries(convs) ==
    IF convs = <<>> THEN <<>>
    ELSE ConversationEntries(Head(convs)) \o BuildEntries(Tail(convs))

\* this.conversationMap.set(conversation.id, conversation), in input order.
BuildConversationMap(convs) ==
    [id \in {convs[i].id : i \in 1..Len(convs)} |->
        convs[CHOOSE i \in 1..Len(convs) :
                /\ convs[i].id = id
                /\ \A j \in (i + 1)..Len(convs) : convs[j].id # id]]

searchFlags_noEmptyGuard(ents, query, mode) ==
    IF Len(queryTerms(query, mode)) = 0 THEN [i \in 1..Len(ents) |-> FALSE]
    ELSE [i \in 1..Len(ents) |-> entryMatches(ents[i], queryTerms(query, mode), mode)]
\* The value of `matches` for every entry (FALSE where search returns
\* before looking at the entries).
searchFlags(ents, query, mode) ==
    IF Trim(query) = <<>> THEN [i \in 1..Len(ents) |-> FALSE]
    ELSE IF Len(queryTerms(query, mode)) = 0 THEN [i \in 1..Len(ents) |-> FALSE]
    ELSE [i \in 1..Len(ents) |-> entryMatches(ents[i], queryTerms(query, mode), mode)]

\* conversationMatches: the keys in insertion order ...
MatchedConversationIds(ents, flags) ==
    LET first == { i \in 1..Len(ents) :
                     /\ flags[i]
                     /\ \A j \in 1..(i - 1) :
                          ~(flags[j] /\ ents[j].conversationId = ents[i].conversationId) }
        IsFirst(i) == i \in first
        idx == SelectSeq([i \in 1..Len(ents) |-> i], IsFirst)
    IN  [k \in 1..Len(idx) |-> ents[idx[k]].conversationId]

\* ... and the Set<string> of message ids of each key.
MatchedMessageIds(ents, flags, cid) ==
    { ents[i].messageId : i \in { j \in 1..Len(ents) : flags[j] /\ ents[j].conversationId = cid } }

\* matchingMessages = conversation.messages.filter(msg => messageIds.has(msg.uuid))
SearchResult(conv, ids) ==
    LET Hit(m) == m.uuid \in ids
    IN  [conversation |-> conv,
         matchingMessages |-> SelectSeq(conv.messages, Hit),
         matchCount |-> Len(SelectSeq(conv.messages, Hit))]

compareResults_noTieBreak(a, b) == b.matchCount - a.matchCount
\* The comparator of results.sort.
compareResults(a, b) ==
    IF b.matchCount # a.matchCount THEN b.matchCount - a.matchCount
    ELSE b.conversation.lastUpdated - a.conversation.lastUpdated

\* Array.prototype.sort (stable) with compareResults.
RECURSIVE InsertResult(_, _)
InsertResult(sorted, x) ==
    IF sorted = <<>> THEN <<x>>
    ELSE IF compareResults(Head(sorted), x) <= 0
        THEN <<Head(sorted)>> \o InsertResult(Tail(sorted), x)
    ELSE <<x>> \o sorted

RECURSIVE SortResults(_)
SortResults(seq) ==
    IF seq = <<>> THEN <<>>
    ELSE InsertResult(SortResults(SubSeq(seq, 1, Len(seq) - 1)), seq[Len(seq)])

\* The results built from conversationMatches, sorted.
searchResults(ents, cmap, flags) ==
    LET cids == MatchedConversationIds(ents, flags)
        Known(cid) == cid \in DOMAIN cmap
        kept == SelectSeq(cids, Known)
    IN  SortResults([k \in 1..Len(kept) |->
                        SearchResult(cmap[kept[k]], MatchedMessageIds(ents, flags, kept[k]))])

\* FastProjectSearchIndex.search
search(ents, cmap, query, mode) == searchResults(ents, cmap, searchFlags(ents, query, mode))

(***************************************************************************)
(* The conversations handed to buildIndex and the queries handed to search.*)
(***************************************************************************)
TextCatSat   == <<"a", " ", "c", "a", "t", " ", "s", "a", "t">>
TextCategory == <<"c", "a", "t", "e", "g", "o", "r", "y">>
TextCatBang  == <<"C", "a", "t", "!">>
TextCat      == <<"c", "a", "t">>
TextSat      == <<"s", "a", "t">>

UserMessage(uuid, text) == MessageRecord("user", uuid, 1, FALSE, StringContent(text))

\* One conversation with one message, over every content shape.
SingleMessages ==
    { UserMessage("m1", TextCatSat),
      UserMessage("m1", TextCategory),
      UserMessage("m1", TextCatBang),
      UserMessage("m1", <<>>),
      MessageRecord("user", "m1", 1, FALSE, NoContent),
      SystemRecord("m1", 1, TextCatSat),
      SystemRecord("m1", 1, <<>>),
      MessageRecord("assistant", "m1", 1, FALSE,
                    BlocksContent(<<TextBlock(TextCat), ToolUseBlock, TextBlock(<<>>),
                                    TextBlock(TextSat)>>)),
      MessageRecord("assistant", "m1", 1, FALSE, BlocksContent(<<ToolUseBlock>>)) }

\* The message lists of the conversations of a project: one or two messages,
\* matching or not, with distinct or repeated uuids.
MessageLists ==
    { <<UserMessage("m1", TextCatSat)>>,
      <<UserMessage("m1", TextCategory)>>,
      <<UserMessage("m1", TextCatSat), UserMessage("m2", TextCatSat)>>,
      <<UserMessage("m1", TextCatSat), UserMessage("m2", TextCategory)>>,
      <<UserMessage("m1", TextCatSat), UserMessage("m1", TextCatSat)>>,
      <<UserMessage("m1", TextCatSat), UserMessage("m1", TextCategory)>> }

\* The message lists of the second conversation of a project.
SecondLists ==
    { <<UserMessage("m1", TextCatSat)>>,
      <<UserMessage("m1", TextCatSat), UserMessage("m2", TextCatSat)>>,
      <<UserMessage("m1", TextCatSat), UserMessage("m1", TextCategory)>> }

Timestamps == {1, 2}

ProjectConversations(id) ==
    { Conv(id, t, ms) : t \in Timestamps, ms \in MessageLists }

ConversationInputs ==
    {<<>>}
    \cup { <<Conv("c1", 1, <<m>>)>> : m \in SingleMessages }
    \cup { <<a>> : a \in ProjectConversations("c1") }
    \cup { <<a, b>> : a \in ProjectConversations("c1"),
                       b \in { Conv("c2", t, ms) : t \in Timestamps, ms \in SecondLists } }
    \cup { <<Conv("c1", 1, <<UserMessage("m1", TextCatSat)>>),
             Conv("c1", 2, <<UserMessage("m1", TextCategory), UserMessage("m2", TextCatSat)>>)>> }

Queries ==
    { <<>>, <<" ">>, <<" ", "\n">>,
      <<"c", "a", "t">>, <<"C", "A", "T">>, <<" ", "c", "a", "t", "\n">>,
      <<"c", "a", "t", " ", "s", "a", "t">>,
      <<"s", "a", "t", " ", " ", "c", "a", "t">>,
      <<"a", "t">>, <<"c", ".", "t">>, <<"t", "!">>,
      <<"d", "o", "g">>,
      <<"!">>, <<"!", "?">>, <<"@", " ", "#">> }

Modes == {"exact", "regex"}

NoStats == [totalConversations |-> 0, totalMessages |-> 0, indexSize |-> 0]

NoCall == [op |-> "none", query |-> <<>>, mode |-> "exact", matches |-> <<>>,
           results |-> <<>>, stats |-> NoStats]

FastInit ==
    /\ entries = <<>>
    /\ conversationMap = <<>>
    /\ builds = 0
    /\ call = NoCall
    /\ indexed = <<>>
    /\ hadEntries = FALSE

\* No call of parseConversationStream is running.
ParserIdle ==
    /\ pc = "idle"
    /\ log = <<>>
    /\ summary = NoValue
    /\ messages = <<>>
    /\ sideChainDepth = 0
    /\ lineNumber = 0
    /\ lastMessageTimestamp = 0
    /\ conversation = NoValue
    /\ now = 0
    /\ reparsed = NoValue

\* buildIndex without the two clearing statements: the new entries and
\* conversations are added to the ones held.
BuildIndex_noClear(convs) ==
    /\ builds < MaxBuilds
    /\ entries' = entries \o BuildEntries(convs)
    /\ conversationMap' =
          [id \in DOMAIN conversationMap \cup DOMAIN BuildConversationMap(convs) |->
              IF id \in DOMAIN BuildConversationMap(convs)
              THEN BuildConversationMap(convs)[id] ELSE conversationMap[id]]
    /\ builds' = builds + 1
    /\ call' = [NoCall EXCEPT !.op = "buildIndex"]
    /\ indexed' = convs
    /\ hadEntries' = (entries # <<>>)
    /\ UNCHANGED <<parserVars, psiVars, serverVars, clientVars>>

\* await index.buildIndex(conversations)
BuildIndex(convs) ==
    /\ builds < MaxBuilds
    /\ entries' = BuildEntries(convs)
    /\ conversationMap' = BuildConversationMap(convs)
    /\ builds' = builds + 1
    /\ call' = [NoCall EXCEPT !.op = "buildIndex"]
    /\ indexed' = convs
    /\ hadEntries' = (entries # <<>>)
    /\ UNCHANGED <<parserVars, psiVars, serverVars, clientVars>>

\* index.search(query, mode)
Search(query, mode) ==
    /\ LET flags == searchFlags(entries, query, mode)
       IN  call' = [NoCall EXCEPT !.op = "search", !.query = query, !.mode = mode,
                       !.matches = flags,
                       !.results = searchResults(entries, conversationMap, flags)]
    /\ UNCHANGED <<entries, conversationMap, builds, indexed, hadEntries>>
    /\ UNCHANGED <<parserVars, psiVars, serverVars, clientVars>>

\* this.entries.reduce((sum, entry) => sum + entry.text.length, 0)
RECURSIVE SumTextLengths(_)
SumTextLengths(ents) ==
    IF ents = <<>> THEN 0 ELSE Len(Head(ents).text) + SumTextLengths(Tail(ents))

\* FastProjectSearchIndex.getStats
getStats(ents, cmap) ==
    [totalConversations |-> Cardinality(DOMAIN cmap),
     totalMessages |-> Len(ents),
     indexSize |-> SumTextLengths(ents)]

\* index.getStats()
GetStats ==
    /\ call' = [NoCall EXCEPT !.op = "getStats",
                              !.stats = getStats(entries, conversationMap)]
    /\ UNCHANGED <<entries, conversationMap, builds, indexed, hadEntries>>
    /\ UNCHANGED <<parserVars, psiVars, serverVars, clientVars>>

(***************************************************************************)
(* ProjectSearchIndex: tokenize, buildIndex and search.                    *)
(***************************************************************************)
\* text.split(/\b/): the maximal runs of word characters and of other
\* characters, in order.
RECURSIVE SplitWordBoundaries(_)
SplitWordBoundaries(s) ==
    IF s = <<>> THEN <<>>
    ELSE LET stop == IF \E i \in 2..Len(s) : IsWordChar(s[i]) # IsWordChar(s[1])
                     THEN CHOOSE i \in 2..Len(s) :
                            /\ IsWordChar(s[i]) # IsWordChar(s[1])
                            /\ \A j \in 2..(i - 1) : IsWordChar(s[j]) = IsWordChar(s[1])
                     ELSE Len(s) + 1
         IN  <<SubSeq(s, 1, stop - 1)>> \o SplitWordBoundaries(SubSeq(s, stop, Len(s)))

HasWordChar(token) == \E i \in 1..Len(token) : IsWordChar(token[i])

\* ProjectSearchIndex.tokenize
tokenize(text) ==
    LET pieces == SplitWordBoundaries(ToLowerCase(text))
    IN  { pieces[i] : i \in { j \in 1..Len(pieces) :
                                Trim(pieces[j]) # <<>> /\ HasWordChar(pieces[j]) } }

PsiBlockText(b) == IF b.type = "text" THEN b.text ELSE <<>>

\* ProjectSearchIndex.extractSearchableText
psiExtractSearchableText(message) ==
    LET content == message.message
    IN  IF content.shape = "none" \/ (content.shape = "string" /\ content.str = <<>>)
            THEN IF message.type = "system" /\ message.content # <<>>
                 THEN message.content
                 ELSE <<>>
        ELSE IF content.shape = "string" THEN content.str
        ELSE JoinSpace([i \in 1..Len(content.blocks) |-> PsiBlockText(content.blocks[i])])

PsiHasSearchableText(message) == psiExtractSearchableText(message) # <<>>

\* ProjectSearchIndex.processConversation
processConversation(conv) ==
    LET kept == SelectSeq(conv.messages, PsiHasSearchableText)
    IN  [i \in 1..Len(kept) |->
            [conversationId |-> conv.id, messageId |-> kept[i].uuid,
             text |-> psiExtractSearchableText(kept[i]),
             tokens |-> tokenize(psiExtractSearchableText(kept[i])),
             timestamp |-> kept[i].timestamp]]

\* ProjectSearchIndex.processBatch: the entries and the map of one batch.
RECURSIVE BatchEntries(_)
BatchEntries(convs) ==
    IF convs = <<>> THEN <<>>
    ELSE processConversation(Head(convs)) \o BatchEntries(Tail(convs))

processBatch(convs) ==
    [entries |-> BatchEntries(convs), conversationMap |-> BuildConversationMap(convs)]

\* for (const [id, conversation] of conversationMap) this.conversationMap.set(id, conversation)
MergeMaps(old, new) ==
    [id \in (DOMAIN old) \cup (DOMAIN new) |-> IF id \in DOMAIN new THEN new[id] ELSE old[id]]

\* The value of `matches` for one entry of ProjectSearchIndex.search.
psiEntryMatches(entry, queryTokens) ==
    \A qt \in queryTokens : \E et \in entry.tokens : Includes(et, qt)

psiSearchFlags(ents, query) ==
    IF Trim(query) = <<>> THEN [i \in 1..Len(ents) |-> FALSE]
    ELSE [i \in 1..Len(ents) |-> psiEntryMatches(ents[i], tokenize(query))]

\* ProjectSearchIndex.search
psiSearch(ents, cmap, query) == searchResults(ents, cmap, psiSearchFlags(ents, query))

PsiInit ==
    /\ psiEntries = <<>>
    /\ psiConversationMap = <<>>
    /\ psiPending = <<>>
    /\ psiCall = NoCall

PsiInputs ==
    {<<>>}
    \cup { <<Conv("c1", 1, <<m>>)>> : m \in SingleMessages }
    \cup { <<Conv("c1", 1, <<UserMessage("m1", TextCatSat)>>),
             Conv("c2", 2, <<UserMessage("m1", TextCategory), UserMessage("m2", TextCatBang)>>)>> }

\* buildIndex up to `await Promise.all(batches.map(...))`: the index is
\* cleared and the batches are processed into the call's own results.
PsiBuildStart(convs) ==
    /\ Len(psiPending) < MaxPending
    /\ psiEntries' = <<>>
    /\ psiConversationMap' = <<>>
    /\ psiPending' = Append(psiPending, processBatch(convs))
    /\ psiCall' = [NoCall EXCEPT !.op = "buildIndex"]
    /\ UNCHANGED <<parserVars, fastVars, serverVars, clientVars>>

\* buildIndex after the await: the batch results are merged into the index.
PsiBuildMerge(i) ==
    /\ i \in 1..Len(psiPending)
    /\ psiEntries' = psiEntries \o psiPending[i].entries
    /\ psiConversationMap' = MergeMaps(psiConversationMap, psiPending[i].conversationMap)
    /\ psiPending' = SubSeq(psiPending, 1, i - 1) \o SubSeq(psiPending, i + 1, Len(psiPending))
    /\ UNCHANGED psiCall
    /\ UNCHANGED <<parserVars, fastVars, serverVars, clientVars>>

\* index.search(query)
PsiSearch(query) ==
    /\ psiCall' = [op |-> "search", query |-> query, mode |-> "regex",
                   matches |-> psiSearchFlags(psiEntries, query),
                   results |-> psiSearch(psiEntries, psiConversationMap, query)]
    /\ UNCHANGED <<psiEntries, psiConversationMap, psiPending>>
    /\ UNCHANGED <<parserVars, fastVars, serverVars, clientVars>>

(***************************************************************************)
(* The machine: the clock and the project directories.                     *)
(***************************************************************************)
\* const CACHE_TTL = 5 * 60 * 1000, in milliseconds
CACHE_TTL == 300000

\* The readings of Date.now() at which something happens.
ClockReadings == {0, CACHE_TTL - 1, CACHE_TTL}

JsonlSuffix == <<".", "j", "s", "o", "n", "l">>

\* String.prototype.endsWith
EndsWith(s, suffix) ==
    /\ Len(s) >= Len(suffix)
    /\ SubSeq(s, Len(s) - Len(suffix) + 1, Len(s)) = suffix

\* s.replace(pattern, ''): the first occurrence of pattern is removed.
RemoveFirst(s, pattern) ==
    LET At(q) == SubSeq(s, q + 1, q + Len(pattern)) = pattern
        starts == { q \in 0..(Len(s) - Len(pattern)) : At(q) }
    IN  IF starts = {} THEN s
        ELSE LET q == CHOOSE x \in starts : \A y \in starts : x <= y
             IN  SubSeq(s, 1, q) \o SubSeq(s, q + Len(pattern) + 1, Len(s))

\* filePath.split('/').pop()?.replace('.jsonl', '')
ConversationIdOf(name) == RemoveFirst(name, JsonlSuffix)

\* A file of a project directory: its name, whether it can be read, and the
\* lines it holds.
File(name, readable, lines) == [name |-> name, readable |-> readable, lines |-> lines]

NameA    == <<"a">> \o JsonlSuffix
NameB    == <<"b">> \o JsonlSuffix
NameC    == <<"c">> \o JsonlSuffix
NameD    == <<"d">> \o JsonlSuffix
NameInfo == <<"p", "r", "o", "j", "e", "c", "t", ".", "j", "s", "o", "n">>

\* The length of a day in milliseconds: toISOString().split('T')[0] is the
\* UTC day of the timestamp.
MillisPerDay == 86400000

\* A record and the length of its JSON text.
Sized(data, chars) == data @@ [chars |-> chars]

NamedToolUse(name) == [type |-> "tool_use", text |-> <<>>, name |-> name]
ThinkingBlock      == [type |-> "thinking", text |-> <<>>]

CatLine      == Sized(MessageRecord("user", "m1", 1, FALSE, StringContent(TextCat)), 61)
CatSatLine   == Sized(MessageRecord("assistant", "m2", 2, FALSE,
                                    StringContent(TextCatSat)), 72)
CategoryLine == Sized(MessageRecord("user", "m3", 3, FALSE,
                                    StringContent(TextCategory)), 66)
SummaryLine  == Sized(SummaryRecord("summary", <<"s", "1">>, 0), 30)
\* An assistant record of the next day with two tool calls and a thinking block.
ToolLine     == Sized(MessageRecord("assistant", "m4", MillisPerDay + 4, FALSE,
                                    BlocksContent(<<TextBlock(TextCat), NamedToolUse("Bash"),
                                                    ToolUseBlock, ThinkingBlock>>)), 150)
\* A user record without a timestamp.
UndatedLine  == Sized(MessageRecord("user", "m5", 0, FALSE, StringContent(TextCat)), 41)

FileA1     == File(NameA, TRUE, <<CatLine>>)
FileA2     == File(NameA, TRUE, <<CatLine, CatSatLine>>)
FileB      == File(NameB, TRUE, <<SummaryLine, CategoryLine>>)
FileBlank  == File(NameA, TRUE, <<BlankLine>>)
FileC      == File(NameC, TRUE, <<BadLine, ToolLine, UndatedLine>>)
\* A file whose lines do not parse.
FileBad    == File(NameD, TRUE, <<BadLine, BlankLine, BadLine>>)
FileLocked == File(NameA, FALSE, <<CatLine>>)
FileInfo   == File(NameInfo, TRUE, <<>>)

\* The project directories of the machine and the ids a request may name.
DiskProjects      == {"p1", "p2"}
RequestedProjects == DiskProjects \cup {"px"}

\* The contents a project directory goes through.
LogVersions(p) ==
    IF p = "p1"
    THEN { <<FileInfo>>, <<FileA1>>, <<FileA2, FileB>> }
    ELSE { <<FileLocked, FileB>> }

\* The file .stats_cache.json: absent, or present with its mtimeMs and
\* its content. The content is the JSON text of a statistics object, or
\* text that does not parse, or cannot be read at all; `sources` records the
\* log files from which the statistics were computed and `addedDuring` the
\* log files that were added to the directory after the pass listed it and
\* before it wrote the snapshot.
NoSnapshot ==
    [state |-> "missing", mtime |-> 0, data |-> NoValue, sources |-> {},
     addedDuring |-> {}]

DiskInit ==
    /\ clock = 0
    /\ projectFiles = [p \in DiskProjects |-> IF p = "p1" THEN <<FileA1>>
                                              ELSE <<FileLocked, FileB>>]
    /\ dirMtime = [p \in DiskProjects |-> 0]
    /\ snapshot = [p \in DiskProjects |-> NoSnapshot]

\* Time passes.
Tick(t) ==
    /\ t > clock
    /\ clock' = t
    /\ UNCHANGED <<projectFiles, dirMtime, snapshot, cacheVars, statsVars, listVars, libVars, clientVars>>

\* The names of the entries of a directory.
FileNames(files) == { files[i].name : i \in 1..Len(files) }

\* Another program adds, removes or rewrites log files of a project. The
\* modification time of the directory changes when an entry is added or
\* removed, not when a file is rewritten.
ChangeFiles(p, files) ==
    /\ files # projectFiles[p]
    /\ projectFiles' = [projectFiles EXCEPT ![p] = files]
    /\ dirMtime' = IF FileNames(files) # FileNames(projectFiles[p])
                   THEN [dirMtime EXCEPT ![p] = clock]
                   ELSE dirMtime
    /\ UNCHANGED <<clock, snapshot, cacheVars, statsVars, listVars, libVars, clientVars>>

(***************************************************************************)
(* The project search route, GET /api/projects/[projectId]/search, and     *)
(* its index cache.                                                        *)
(***************************************************************************)
IsJsonlFile(file) == EndsWith(file.name, JsonlSuffix)
IsReadable(file) == file.readable

\* const conversation = await parseConversationStream(filePath);
\* conversation.projectId = projectId
LoadConversation(p, file, t) ==
    [parseConversationStream(ConversationIdOf(file.name), file.lines, t)
        EXCEPT !.projectId = p]

\* The orders in which n parses running together may complete.
CompletionOrders(n) ==
    { f \in [1..n -> 1..n] : \A i, j \in 1..n : i # j => f[i] # f[j] }

\* await Promise.all(jsonlFiles.map(async file => { try { ...push } catch {} })):
\* the arrays `conversations` that the call may leave, one per completion
\* order; a file that cannot be read is logged and left out.
LoadedConversations(p, files, t) ==
    LET jsonlFiles == SelectSeq(files, IsJsonlFile)
    IN  { LET done == SelectSeq([i \in 1..Len(jsonlFiles) |-> jsonlFiles[f[i]]], IsReadable)
          IN  [i \in 1..Len(done) |-> LoadConversation(p, done[i], t)] :
          f \in CompletionOrders(Len(jsonlFiles)) }

\* index = new FastProjectSearchIndex(); await index.buildIndex(conversations)
NewIndex(convs) ==
    [entries |-> BuildEntries(convs), conversationMap |-> BuildConversationMap(convs)]

\* content: msg.message?.content || msg.content || ''
FormatContent(msg) ==
    IF msg.message.shape = "blocks" \/ (msg.message.shape = "string" /\ msg.message.str # <<>>)
    THEN msg.message
    ELSE StringContent(msg.content)

FormatMessage(msg) ==
    [uuid |-> msg.uuid, type |-> msg.type, timestamp |-> msg.timestamp,
     content |-> FormatContent(msg)]

\* The element of formattedResults made from one search result.
FormatResult(p, result) ==
    [project |-> p,
     conversation |-> [id |-> result.conversation.id,
                       summary |-> result.conversation.summary,
                       messageCount |-> result.conversation.messageCount,
                       lastUpdated |-> result.conversation.lastUpdated,
                       projectId |-> result.conversation.projectId],
     matchingMessages |->
        [i \in 1..Min(3, Len(result.matchingMessages)) |->
            FormatMessage(result.matchingMessages[i])],
     matchCount |-> result.matchCount]

\* const searchResults = index.search(query); ... NextResponse.json({ results, indexStats })
SearchBody(p, index, query) ==
    LET found == search(index.entries, index.conversationMap, query, "exact")
    IN  [status |-> 200,
         results |-> [i \in 1..Len(found) |-> FormatResult(p, found[i])],
         indexStats |-> getStats(index.entries, index.conversationMap)]

EmptyBody    == [status |-> 200, results |-> <<>>, indexStats |-> NoStats]
NotFoundBody == [status |-> 404, results |-> <<>>, indexStats |-> NoStats]

\* A response and what the handler did to produce it: the request (its
\* project, its q and its mode parameter, which the handler never reads), the clock
\* reading and the cache entry when it arrived, the index it searched, the
\* directory content it read, and the cache just before it answered.
Answer(body, p, query, mode, arrivedAt, atArrival, index, logsRead, before) ==
    [body |-> body, projectId |-> p, query |-> query, mode |-> mode,
     arrivedAt |-> arrivedAt,
     cacheAtArrival |-> atArrival, index |-> index, logsRead |-> logsRead,
     cacheBefore |-> before]

\* Whether the handler called fs.readdir, and what the directory held.
NotRead == [read |-> FALSE, files |-> <<>>]
DirectoryRead(files) == [read |-> TRUE, files |-> files]

NoResponse ==
    Answer([status |-> 0, results |-> <<>>, indexStats |-> NoStats],
           "", <<>>, "exact", 0, NoValue, NoValue, NotRead,
           [p \in RequestedProjects |-> NoValue])

CacheInit ==
    /\ indexCache = [p \in RequestedProjects |-> NoValue]
    /\ inflight = <<>>
    /\ response = NoResponse

\* if (!query || !query.trim())
IsBlankQuery(query) == Trim(query) = <<>>

\* Date.now() - cached.timestamp <= CACHE_TTL
IsFresh_inclusive(cached, t) == cached # NoValue /\ t - cached.timestamp <= CACHE_TTL
\* cached && Date.now() - cached.timestamp < CACHE_TTL
IsFresh(cached, t) == cached # NoValue /\ t - cached.timestamp < CACHE_TTL

\* indexCache.set(projectId, { index, timestamp: Date.now() })
CacheSet(cache, p, index, t) ==
    [cache EXCEPT ![p] = [index |-> index, timestamp |-> t]]

\* The request has a blank query, or names a project that does not exist:
\* it is answered before the cache is looked at.
ProjectSearchRejected(p, query, mode) ==
    /\ IsBlankQuery(query) \/ p \notin DiskProjects
    /\ response' = Answer(IF IsBlankQuery(query) THEN EmptyBody ELSE NotFoundBody,
                          p, query, mode, clock, indexCache[p], NoValue, NotRead,
                          indexCache)
    /\ UNCHANGED <<indexCache, inflight, diskVars, statsVars, listVars, libVars, clientVars>>

\* The cached index of the project is fresh: it is searched.
ProjectSearchCached(p, query, mode) ==
    /\ ~IsBlankQuery(query) /\ p \in DiskProjects
    /\ IsFresh(indexCache[p], clock)
    /\ response' = Answer(SearchBody(p, indexCache[p].index, query),
                          p, query, mode, clock, indexCache[p], indexCache[p].index,
                          NotRead, indexCache)
    /\ UNCHANGED <<indexCache, inflight, diskVars, statsVars, listVars, libVars, clientVars>>

\* No fresh index, and the project directory holds no .jsonl file.
ProjectSearchNoLogs(p, query, mode) ==
    /\ ~IsBlankQuery(query) /\ p \in DiskProjects
    /\ ~IsFresh(indexCache[p], clock)
    /\ SelectSeq(projectFiles[p], IsJsonlFile) = <<>>
    /\ response' = Answer(EmptyBody, p, query, mode, clock, indexCache[p], NoValue,
                          DirectoryRead(projectFiles[p]), indexCache)
    /\ UNCHANGED <<indexCache, inflight, diskVars, statsVars, listVars, libVars, clientVars>>

\* No fresh index: the log files are read and parsed, and the request
\* goes on to build its index.
ProjectSearchLoad(p, query, mode) ==
    /\ ~IsBlankQuery(query) /\ p \in DiskProjects
    /\ ~IsFresh(indexCache[p], clock)
    /\ SelectSeq(projectFiles[p], IsJsonlFile) # <<>>
    /\ Len(inflight) < MaxInFlight
    /\ \E convs \in LoadedConversations(p, projectFiles[p], clock) :
          inflight' = Append(inflight,
                             [projectId |-> p, query |-> query, mode |-> mode,
                              conversations |-> convs,
                              arrivedAt |-> clock, cacheAtArrival |-> indexCache[p],
                              logsRead |-> DirectoryRead(projectFiles[p])])
    /\ UNCHANGED <<indexCache, response, diskVars, statsVars, listVars, libVars, clientVars>>

\* The index is built, cached under the project id and searched.
ProjectSearchBuild(i) ==
    /\ i \in 1..Len(inflight)
    /\ LET r == inflight[i]
           index == NewIndex(r.conversations)
       IN  /\ indexCache' = CacheSet(indexCache, r.projectId, index, clock)
           /\ response' = Answer(SearchBody(r.projectId, index, r.query),
                                 r.projectId, r.query, r.mode, r.arrivedAt,
                                 r.cacheAtArrival,
                                 index, r.logsRead, indexCache)
    /\ inflight' = [k \in 1..(Len(inflight) - 1) |->
                       IF k < i THEN inflight[k] ELSE inflight[k + 1]]
    /\ UNCHANGED <<diskVars, statsVars, listVars, libVars, clientVars>>

\* The queries sent to the route.
RouteQueries == { TextCat, <<" ">> }

\* The requests sent to the route: ?q=...&mode=...
RouteRequests == [q : RouteQueries, mode : {"exact"}]

\* The requests of the project page, which sends the mode the user selected.
PageRequests == [q : RouteQueries, mode : Modes]

(***************************************************************************)
(* The specifications.                                                     *)
(***************************************************************************)
ParserNext ==
    \/ \E line \in Lines : ReadLine(line)
    \/ EndOfFile
    \/ \E t \in Nows : Reparse(t)

FastNext ==
    \/ \E convs \in ConversationInputs : BuildIndex(convs)
    \/ \E query \in Queries, mode \in Modes : Search(query, mode)
    \/ GetStats

PsiNext ==
    \/ \E convs \in PsiInputs : PsiBuildStart(convs)
    \/ \E i \in 1..MaxPending : PsiBuildMerge(i)
    \/ \E query \in Queries : PsiSearch(query)

CacheNext ==
    \/ \E t \in ClockReadings : Tick(t)
    \/ \E p \in DiskProjects : \E files \in LogVersions(p) : ChangeFiles(p, files)
    \/ \E p \in RequestedProjects, req \in RouteRequests : ProjectSearchRejected(p, req.q, req.mode)
    \/ \E p \in RequestedProjects, req \in RouteRequests : ProjectSearchCached(p, req.q, req.mode)
    \/ \E p \in RequestedProjects, req \in RouteRequests : ProjectSearchNoLogs(p, req.q, req.mode)
    \/ \E p \in RequestedProjects, req \in RouteRequests : ProjectSearchLoad(p, req.q, req.mode)
    \/ \E i \in 1..MaxInFlight : ProjectSearchBuild(i)

(***************************************************************************)
(* The project statistics route: GET /api/projects/[projectId]/stats.      *)
(* The handler answers from .stats_cache.json when the file is at least as *)
(* recent as the project directory; otherwise it reads the logs (one step, *)
(* StatsRead), then writes the snapshot and answers (StatsFinish). Time    *)
(* passes and the files change between the two steps.                      *)
(***************************************************************************)
\* new Date(data.timestamp): a missing timestamp gives an invalid date, on
\* which toISOString() throws a RangeError.
IsValidDate(ts) == ts # 0
DayOf(ts) == ts \div MillisPerDay

\* mostActiveDay.date before any day was seen ('').
NoDay == -1

\* Math.ceil(a / b)
CeilDiv(a, b) == (a + b - 1) \div b

\* Math.round(a / b) on non-negative integers
RoundDiv(a, b) == (2 * a + b) \div (2 * b)

\* item.name || 'unknown'
ToolName(item) ==
    IF "name" \in DOMAIN item /\ item.name # "" THEN item.name ELSE "unknown"

\* obj[key] = (obj[key] || 0) + 1 on an object kept as its entries in
\* insertion order
Increment(counts, key) ==
    IF \E i \in 1..Len(counts) : counts[i].key = key
    THEN [i \in 1..Len(counts) |->
            IF counts[i].key = key
            THEN [counts[i] EXCEPT !.count = @ + 1] ELSE counts[i]]
    ELSE Append(counts, [key |-> key, count |-> 1])

\* const stats = { projectId, totalConversations: 0, ... }
NewStats(p) ==
    [projectId |-> p,
     totalConversations |-> 0,
     totalMessages |-> 0,
     totalUserMessages |-> 0,
     totalAssistantMessages |-> 0,
     totalToolCalls |-> 0,
     toolUsageBreakdown |-> <<>>,
     totalThinkingBlocks |-> 0,
     averageMessagesPerConversation |-> 0,
     totalTokensEstimate |-> 0,
     longestConversation |-> [id |-> <<>>, messageCount |-> 0],
     mostActiveDay |-> [date |-> NoDay, messageCount |-> 0]]

\* The locals of the aggregation pass: the stats object, dailyActivity, and
\* the two locals of the file being read.
NewPass(p) ==
    [stats |-> NewStats(p), dailyActivity |-> <<>>,
     conversationMessageCount |-> 0, hasContent |-> FALSE]

\* The body of data.message.content.forEach
CountItem(stats, item) ==
    IF item.type = "tool_use"
    THEN [stats EXCEPT !.totalToolCalls = @ + 1,
                       !.toolUsageBreakdown = Increment(@, ToolName(item))]
    ELSE IF item.type = "thinking"
    THEN [stats EXCEPT !.totalThinkingBlocks = @ + 1]
    ELSE stats

RECURSIVE CountItems(_, _)
CountItems(stats, items) ==
    IF items = <<>> THEN stats
    ELSE CountItems(CountItem(stats, Head(items)), Tail(items))

\* if (data.type === 'user') ... else if (data.type === 'assistant') ...
CountByType(stats, data) ==
    IF data.type = "user"
    THEN [stats EXCEPT !.totalUserMessages = @ + 1]
    ELSE IF data.type = "assistant"
    THEN LET counted == [stats EXCEPT !.totalAssistantMessages = @ + 1]
         IN  IF data.message.shape = "blocks"
             THEN CountItems(counted, data.message.blocks)
             ELSE counted
    ELSE stats

\* JSON.stringify(data).length
JsonLength(data) == data.chars

\* The try block of the line loop on a parsed record. The statements run in
\* source order; when toISOString() throws, the catch keeps what the
\* statements before it have counted and the rest of the block is skipped.
CountRecord(pass, data) ==
    LET counted ==
            IF IsMessageType(data.type)
            THEN [pass EXCEPT !.conversationMessageCount = @ + 1,
                              !.stats.totalMessages = @ + 1]
            ELSE pass
    IN  IF IsMessageType(data.type) /\ ~IsValidDate(data.timestamp)
        THEN counted
        ELSE LET dated ==
                     IF IsMessageType(data.type)
                     THEN [counted EXCEPT
                             !.dailyActivity = Increment(@, DayOf(data.timestamp))]
                     ELSE counted
                 typed == [dated EXCEPT !.stats = CountByType(@, data)]
             IN  [typed EXCEPT !.stats.totalTokensEstimate =
                                  @ + CeilDiv(JsonLength(data), 4)]

\* One iteration of `for await (const line of rl)`.
CountLine(pass, line) ==
    IF line.kind = "blank" THEN pass
    ELSE LET content == [pass EXCEPT !.hasContent = TRUE]
         IN  IF line.kind = "bad" THEN content
             ELSE CountRecord(content, line)

RECURSIVE CountLines(_, _)
CountLines(pass, lines) ==
    IF lines = <<>> THEN pass
    ELSE CountLines(CountLine(pass, Head(lines)), Tail(lines))

\* The body of `for (const file of jsonlFiles)` on a readable file.
CountFile(pass, file) ==
    LET opened == [pass EXCEPT !.stats.totalConversations = @ + 1,
                               !.conversationMessageCount = 0,
                               !.hasContent = FALSE]
        read == CountLines(opened, file.lines)
    IN  IF ~read.hasContent
        THEN [read EXCEPT !.stats.totalConversations = @ - 1]
        ELSE IF read.conversationMessageCount >
                    read.stats.longestConversation.messageCount
        THEN [read EXCEPT !.stats.longestConversation =
                [id |-> ConversationIdOf(file.name),
                 messageCount |-> read.conversationMessageCount]]
        ELSE read

RECURSIVE CountFiles(_, _)
CountFiles(pass, files) ==
    IF files = <<>> THEN pass
    ELSE CountFiles(CountFile(pass, Head(files)), Tail(files))

\* Object.entries(dailyActivity).sort(([, a], [, b]) => b - a)[0]: the sort
\* is stable, so the first of the days with the highest count.
MostActiveEntry(dailyActivity) ==
    dailyActivity[CHOOSE i \in 1..Len(dailyActivity) :
        /\ \A j \in 1..Len(dailyActivity) :
              dailyActivity[j].count <= dailyActivity[i].count
        /\ \A j \in 1..(i - 1) :
              dailyActivity[j].count < dailyActivity[i].count]

\* The code after the file loop.
FinishStats(pass) ==
    LET stats == pass.stats
        averaged ==
            [stats EXCEPT !.averageMessagesPerConversation =
                IF stats.totalConversations > 0
                THEN RoundDiv(stats.totalMessages, stats.totalConversations)
                ELSE 0]
    IN  IF pass.dailyActivity # <<>>
        THEN [averaged EXCEPT !.mostActiveDay =
                [date |-> MostActiveEntry(pass.dailyActivity).key,
                 messageCount |-> MostActiveEntry(pass.dailyActivity).count]]
        ELSE averaged

\* files.filter(file => file.endsWith('.jsonl'))
JsonlFiles(files) == SelectSeq(files, IsJsonlFile)

AllReadable(files) == \A i \in 1..Len(files) : IsReadable(files[i])

\* The statistics of a directory whose log files can all be read.
ComputeStats(p, files) == FinishStats(CountFiles(NewPass(p), JsonlFiles(files)))

\* The snapshot check: fs.stat of the directory and of the snapshot,
\* the comparison of the two times, fs.readFile and JSON.parse, all in one
\* try block whose catch falls through to the computation.
IsCurrent(snap, directoryMtime) == snap.mtime >= directoryMtime

SnapshotServed(snap, directoryMtime) ==
    /\ snap.state = "ok"
    /\ IsCurrent(snap, directoryMtime)

\* What a handler that does not serve the snapshot has seen of it: whether
\* fs.stat, fs.readFile and JSON.parse succeeded, and mtimeMs.
SnapshotSeen(snap) ==
    [snap EXCEPT !.data = NoValue, !.sources = {}, !.addedDuring = {}]

\* fs.writeFile(cachePath, JSON.stringify(stats)): the statistics hold
\* integers and strings only, which JSON.parse gives back unchanged.
WrittenSnapshot(stats, sources, added, t) ==
    [state |-> "ok", mtime |-> t, data |-> stats, sources |-> sources,
     addedDuring |-> added]

StatsOk(stats)   == [status |-> 200, stats |-> stats, error |-> ""]
StatsNotFoundBody == [status |-> 404, stats |-> NoValue, error |-> "Project not found"]
StatsFailedBody  == [status |-> 500, stats |-> NoValue, error |-> "Failed to calculate stats"]
\* An 'error' event of the read stream that nothing handles ends the
\* process: the request gets no response.
StatsNoAnswer    == [status |-> 0, stats |-> NoValue, error |-> "uncaught"]

AfterWrite_failing(stats, written) ==
    IF written THEN StatsOk(stats) ELSE StatsFailedBody
\* try { await fs.writeFile(...) } catch { console.error(...) }
\* return NextResponse.json(stats)
AfterWrite(stats, written) == StatsOk(stats)

\* A response and what the handler did to produce it: the project, whether
\* the body came from the snapshot or from the logs, the directory time, the
\* snapshot and the directory content the handler saw when it made that
\* choice, whether the snapshot was written, and the
\* snapshot after the answer.
StatsAnswer(body, p, from, directoryMtime, snap, files, written, after) ==
    [body |-> body, projectId |-> p, from |-> from,
     dirMtimeAtArrival |-> directoryMtime, snapshotAtArrival |-> snap,
     files |-> files, written |-> written, snapshotAfter |-> after]

\* The route serving the requests of the project page while the log files
\* change.
SearchModeNext ==
    \/ \E p \in DiskProjects : \E files \in LogVersions(p) : ChangeFiles(p, files)
    \/ \E p \in RequestedProjects, req \in PageRequests : ProjectSearchRejected(p, req.q, req.mode)
    \/ \E p \in RequestedProjects, req \in PageRequests : ProjectSearchCached(p, req.q, req.mode)
    \/ \E p \in RequestedProjects, req \in PageRequests : ProjectSearchNoLogs(p, req.q, req.mode)
    \/ \E p \in RequestedProjects, req \in PageRequests : ProjectSearchLoad(p, req.q, req.mode)
    \/ \E i \in 1..MaxInFlight : ProjectSearchBuild(i)

StatsInit ==
    /\ statsPending = <<>>
    /\ statsResponse = NoValue

\* fs.access(projectPath) fails.
StatsNotFound(p) ==
    /\ p \notin DiskProjects
    /\ statsResponse' = StatsAnswer(StatsNotFoundBody, p, "none", 0,
                                    NoSnapshot, <<>>, FALSE, NoSnapshot)
    /\ UNCHANGED <<statsPending, diskVars, cacheVars, listVars, libVars, clientVars>>

\* The snapshot is at least as recent as the directory, and it is read and
\* parsed: it is the response.
StatsServe(p) ==
    /\ p \in DiskProjects
    /\ SnapshotServed(snapshot[p], dirMtime[p])
    /\ statsResponse' = StatsAnswer(StatsOk(snapshot[p].data), p, "snapshot",
                                    dirMtime[p], snapshot[p], projectFiles[p],
                                    FALSE, snapshot[p])
    /\ UNCHANGED <<statsPending, diskVars, cacheVars, listVars, libVars, clientVars>>

\* No snapshot is served and every log file is read to its end.
StatsRead(p) ==
    /\ p \in DiskProjects
    /\ ~SnapshotServed(snapshot[p], dirMtime[p])
    /\ AllReadable(JsonlFiles(projectFiles[p]))
    /\ Len(statsPending) < MaxInFlight
    /\ statsPending' = Append(statsPending,
          [projectId |-> p, stats |-> ComputeStats(p, projectFiles[p]),
           dirMtimeAtArrival |-> dirMtime[p],
           snapshotAtArrival |-> SnapshotSeen(snapshot[p]), files |-> projectFiles[p]])
    /\ UNCHANGED <<statsResponse, diskVars, cacheVars, listVars, libVars, clientVars>>

\* No snapshot is served and a log file cannot be read: the read stream
\* emits 'error'. Either the line iterator rejects and the outer catch
\* answers 500, or the event is unhandled and the process ends.
StatsReadFailure == { StatsFailedBody, StatsNoAnswer }

StatsReadFailed(p, failure) ==
    /\ p \in DiskProjects
    /\ ~SnapshotServed(snapshot[p], dirMtime[p])
    /\ ~AllReadable(JsonlFiles(projectFiles[p]))
    /\ statsResponse' = StatsAnswer(failure, p, "none", dirMtime[p],
                                    SnapshotSeen(snapshot[p]), projectFiles[p],
                                    FALSE, snapshot[p])
    /\ UNCHANGED <<statsPending, diskVars, cacheVars, listVars, libVars, clientVars>>

\* The snapshot is written, which may fail, and the statistics are the
\* response. Creating the file changes the modification time of the
\* directory; overwriting it does not.
StatsFinish(i, written) ==
    /\ i \in 1..Len(statsPending)
    /\ LET req == statsPending[i]
           p == req.projectId
           after == IF written
                    THEN WrittenSnapshot(req.stats, FileNames(JsonlFiles(req.files)),
                                         FileNames(JsonlFiles(projectFiles[p]))
                                            \ FileNames(JsonlFiles(req.files)),
                                         clock)
                    ELSE snapshot[p]
       IN  /\ snapshot' = [snapshot EXCEPT ![p] = after]
           /\ dirMtime' = IF written /\ snapshot[p].state = "missing"
                          THEN [dirMtime EXCEPT ![p] = clock]
                          ELSE dirMtime
           /\ statsResponse' = StatsAnswer(AfterWrite(req.stats, written), p, "logs",
                                           req.dirMtimeAtArrival,
                                           req.snapshotAtArrival, req.files,
                                           written, after)
    /\ statsPending' = [k \in 1..(Len(statsPending) - 1) |->
                           IF k < i THEN statsPending[k] ELSE statsPending[k + 1]]
    /\ UNCHANGED <<clock, projectFiles, cacheVars, listVars, libVars, clientVars>>

\* Something else deletes the snapshot, overwrites it with text that does
\* not parse, or takes the read permission away.
SnapshotDamages == {"missing", "corrupt", "unreadable"}

DamageSnapshot(p, damage) ==
    /\ snapshot[p].state \notin {"missing", damage}
    /\ snapshot' = [snapshot EXCEPT ![p] =
          IF damage = "missing" THEN NoSnapshot
          ELSE IF damage = "corrupt"
          THEN [state |-> "corrupt", mtime |-> clock, data |-> NoValue, sources |-> {},
                addedDuring |-> {}]
          ELSE [@ EXCEPT !.state = "unreadable", !.data = NoValue]]
    /\ dirMtime' = IF damage = "missing" THEN [dirMtime EXCEPT ![p] = clock]
                   ELSE dirMtime
    /\ UNCHANGED <<clock, projectFiles, cacheVars, statsVars, listVars, libVars, clientVars>>

\* The contents the directory of a project goes through while statistics
\* are requested.
StatsVersions(p) ==
    IF p = "p1"
    THEN { <<FileA1>>, <<FileBlank, FileB, FileC, FileBad>> }
    ELSE { <<FileLocked, FileB>> }

\* The clock readings of the statistics scenarios, in milliseconds.
MtimeReadings == {0, 1}

StatsNext ==
    \/ \E t \in MtimeReadings : Tick(t)
    \/ \E p \in DiskProjects : \E files \in StatsVersions(p) : ChangeFiles(p, files)
    \/ \E p \in DiskProjects, damage \in SnapshotDamages : DamageSnapshot(p, damage)
    \/ \E p \in RequestedProjects : StatsNotFound(p)
    \/ \E p \in RequestedProjects : StatsServe(p)
    \/ \E p \in RequestedProjects : StatsRead(p)
    \/ \E p \in RequestedProjects, failure \in StatsReadFailure : StatsReadFailed(p, failure)
    \/ \E i \in 1..MaxInFlight, written \in BOOLEAN : StatsFinish(i, written)

(***************************************************************************)
(* The conversation list route: GET /api/projects/[id]/conversations.      *)
(* The handler reads every .jsonl file of the project directory whole and  *)
(* builds one conversation per file.                                       *)
(***************************************************************************)
\* content.trim().split('\n').filter(line => line.trim())
IsNonBlank(line) == line.kind # "blank"
ListLines(file) == SelectSeq(file.lines, IsNonBlank)

\* file.substring(0, 8)
FilePrefix(name) == SubSeq(name, 1, Min(8, Len(name)))

\* path.basename(file, '.jsonl') on a name that ends with '.jsonl'
Basename(name) == SubSeq(name, 1, Len(name) - Len(JsonlSuffix))

\* { type: 'conversation.summary', summary: 'Conversation ' + ..., timestamp: ... }
ListSummary(file, firstLine, t) ==
    SummaryRecord("conversation.summary", ConversationPrefix \o FilePrefix(file.name),
                  OrElse(firstLine.timestamp, t))

\* { uuid, timestamp, type: 'system', content: data.content || '', metadata }
ListSystemMessage(data) == SystemRecord(data.uuid, data.timestamp, data.content)

\* The try block of the inner loop on the locals st = [messages, sideChainDepth];
\* a line that does not parse is logged and skipped.
ListLine(st, line) ==
    IF line.kind = "bad" THEN st
    ELSE IF line.type = "user" \/ line.type = "assistant"
        THEN [st EXCEPT !.messages = PushMessage(@, TagMessage(line, st.sideChainDepth))]
    ELSE IF line.type = "sidechain.start"
        THEN [st EXCEPT !.sideChainDepth = SidechainStart(@)]
    ELSE IF line.type = "sidechain.end"
        THEN [st EXCEPT !.sideChainDepth = SidechainEnd(@)]
    ELSE IF line.type = "system"
        THEN [st EXCEPT !.messages = PushMessage(@, ListSystemMessage(line))]
    ELSE st

RECURSIVE ListLoop(_, _)
ListLoop(st, lines) ==
    IF lines = <<>> THEN st
    ELSE ListLoop(ListLine(st, Head(lines)), Tail(lines))

\* messages[messages.length - 1]?.timestamp
LastTimestamp(msgs) ==
    IF msgs = <<>> THEN 0 ELSE msgs[Len(msgs)].timestamp

\* The outer try block of the file loop once lines[0] has parsed: the
\* conversations the file adds to the list.
ListFirstLine(file, lines, p, t) ==
    LET firstLine == lines[1]
        given == IsSummaryType(firstLine.type)
        sum == IF given THEN firstLine ELSE ListSummary(file, firstLine, t)
        rest == IF given THEN Tail(lines) ELSE lines
        msgs == ListLoop([messages |-> <<>>, sideChainDepth |-> 0], rest).messages
    IN  << [id |-> Basename(file.name),
            summary |-> sum,
            messages |-> msgs,
            messageCount |-> Len(msgs),
            lastUpdated |-> OrElse(sum.timestamp,
                                   OrElse(LastTimestamp(msgs), t)),
            projectId |-> p] >>

\* The body of the file loop on a readable file: no conversation for a file
\* without lines, and none when JSON.parse(lines[0]) throws, which the outer
\* catch logs.
ListFile(file, p, t) ==
    LET lines == ListLines(file)
    IN  IF lines = <<>> THEN <<>>
        ELSE IF lines[1].kind = "bad" THEN <<>>
        ELSE ListFirstLine(file, lines, p, t)

RECURSIVE ListFiles(_, _, _)
ListFiles(files, p, t) ==
    IF files = <<>> THEN <<>>
    ELSE ListFile(Head(files), p, t) \o ListFiles(Tail(files), p, t)

\* conversations.sort((a, b) => new Date(b.lastUpdated) - new Date(a.lastUpdated)):
\* most recent first, and the sort is stable.
RECURSIVE InsertConversation(_, _)
InsertConversation(sorted, c) ==
    IF sorted = <<>> THEN <<c>>
    ELSE IF Head(sorted).lastUpdated < c.lastUpdated THEN <<c>> \o sorted
    ELSE <<Head(sorted)>> \o InsertConversation(Tail(sorted), c)

RECURSIVE SortConversations(_)
SortConversations(conversations) ==
    IF conversations = <<>> THEN <<>>
    ELSE InsertConversation(
            SortConversations(SubSeq(conversations, 1, Len(conversations) - 1)),
            conversations[Len(conversations)])

ListOk(conversations) == [status |-> 200, conversations |-> conversations, error |-> ""]
ListNotFoundBody == [status |-> 404, conversations |-> <<>>, error |-> "Project not found"]
ListFailedBody   == [status |-> 500, conversations |-> <<>>,
                     error |-> "Failed to read conversations"]

\* A response, the request and the directory content the handler read.
ListAnswer(body, p, files, t) ==
    [body |-> body, projectId |-> p, files |-> files, now |-> t]

ListInit == listResponse = NoValue

GlobalInit == globalResponse = NoValue

\* fs.access(projectPath) fails.
ListNotFound(p) ==
    /\ p \notin DiskProjects
    /\ listResponse' = ListAnswer(ListNotFoundBody, p, <<>>, 0)
    /\ UNCHANGED <<diskVars, cacheVars, statsVars, libVars, clientVars>>

\* Every .jsonl file is read; t is new Date() at the time of the call.
ListConversations(p, t) ==
    /\ p \in DiskProjects
    /\ AllReadable(JsonlFiles(projectFiles[p]))
    /\ listResponse' =
          ListAnswer(ListOk(SortConversations(ListFiles(JsonlFiles(projectFiles[p]), p, t))),
                     p, projectFiles[p], t)
    /\ UNCHANGED <<diskVars, cacheVars, statsVars, libVars, clientVars>>

\* fs.readFile of a .jsonl file rejects: the call is outside the try block
\* of the file loop, so the catch of the handler answers.
ListFailed(p, t) ==
    /\ p \in DiskProjects
    /\ ~AllReadable(JsonlFiles(projectFiles[p]))
    /\ listResponse' = ListAnswer(ListFailedBody, p, projectFiles[p], t)
    /\ UNCHANGED <<diskVars, cacheVars, statsVars, libVars, clientVars>>

\* The contents the directory of a project goes through while its
\* conversations are listed.
FileBadFirst  == File(NameA, TRUE, <<BadLine, CatLine, CatSatLine>>)
FileBadMiddle == File(NameA, TRUE, <<CatLine, BadLine, BlankLine, CatSatLine>>)
FileMarked    == File(NameA, TRUE, <<SummaryLine, SidechainStartLine, UserShortLine,
                                     SidechainEndLine, SystemRecord("y1", 4, <<"o", "k">>)>>)

ListVersions(p) ==
    IF p = "p1"
    THEN { <<a>> \o rest :
             a \in {FileA1, FileA2, FileBadFirst, FileBadMiddle, FileMarked,
                    FileBlank, FileLocked},
             rest \in {<<>>, <<FileB>>, <<FileInfo>>} }
    ELSE { <<FileLocked, FileB>> }

ListNext ==
    \/ \E p \in DiskProjects : \E files \in ListVersions(p) : ChangeFiles(p, files)
    \/ \E p \in RequestedProjects : ListNotFound(p)
    \/ \E p \in RequestedProjects, t \in Nows : ListConversations(p, t)
    \/ \E p \in RequestedProjects, t \in Nows : ListFailed(p, t)

ServerInit == DiskInit /\ CacheInit /\ StatsInit /\ ListInit

(***************************************************************************)
(* The global search route: GET /api/search-fast. Every project directory  *)
(* is searched by quickSearchProject, whose file passes run in parallel    *)
(* and push their result when they complete; the results of the projects   *)
(* are concatenated in directory order, sorted by match count and cut.     *)
(***************************************************************************)
\* allResults.slice(0, 50)
ResultLimit == 50

\* queryTokens
quickTokens(query, mode) ==
    IF mode = "exact" THEN <<Trim(ToLowerCase(query))>>
    ELSE LET pieces == SplitWordBoundaries(ToLowerCase(query))
         IN  SelectSeq(pieces, HasWordChar)

\* let text = '' ... : the text of a user / assistant / system record
quickText(data) ==
    IF data.type = "system" /\ data.content # <<>> THEN data.content
    ELSE IF data.message.shape = "string" THEN data.message.str
    ELSE IF data.message.shape = "blocks"
        THEN JoinSpace(BlockTexts(SelectSeq(data.message.blocks, IsIndexedTextBlock)))
    ELSE <<>>

\* hasAllTokens
hasAllTokens(text, tokens, mode) ==
    IF mode = "exact" THEN exactRegexTest(text, tokens[1])
    ELSE \A k \in 1..Len(tokens) : Includes(ToLowerCase(text), tokens[k])

\* String.prototype.indexOf
IndexOf(text, term) ==
    IF Includes(text, term)
    THEN CHOOSE i \in 0..(Len(text) - Len(term)) :
            /\ SubSeq(text, i + 1, i + Len(term)) = term
            /\ \A j \in 0..(i - 1) : SubSeq(text, j + 1, j + Len(term)) # term
    ELSE -1

\* The preview around the first token; with no token indexOf(undefined)
\* finds nothing.
quickPreview(text, tokens) ==
    LET firstTokenIndex == IF tokens = <<>> THEN -1
                           ELSE IndexOf(ToLowerCase(text), tokens[1])
        start == Max(0, firstTokenIndex - 50)
        end == Min(Len(text), firstTokenIndex + 150)
    IN  (IF start > 0 THEN Ellipsis ELSE <<>>)
            \o Substring(text, start, end)
            \o (IF end < Len(text) THEN Ellipsis ELSE <<>>)

\* One iteration of the line loop on line number i, on the locals
\* st = [summary, matchCount, matches].
quickLine(st, line, i, tokens, mode) ==
    IF line.kind # "rec" THEN st
    ELSE LET seen == IF i = 0 /\ IsSummaryType(line.type)
                     THEN [st EXCEPT !.summary = line] ELSE st
         IN  IF ~IsMessageType(line.type) THEN seen
             ELSE IF quickText(line) = <<>> THEN seen
             ELSE IF ~hasAllTokens(quickText(line), tokens, mode) THEN seen
             ELSE [seen EXCEPT
                     !.matchCount = @ + 1,
                     !.matches =
                         IF Len(@) < 3
                         THEN Append(@, [uuid |-> line.uuid, type |-> line.type,
                                         content |-> quickPreview(quickText(line), tokens),
                                         lineNumber |-> i])
                         ELSE @]

RECURSIVE quickLines(_, _, _, _, _)
quickLines(st, lines, i, tokens, mode) ==
    IF i >= Len(lines) THEN st
    ELSE quickLines(quickLine(st, lines[i + 1], i, tokens, mode), lines, i + 1,
                    tokens, mode)

\* summary?.summary || `Conversation ${conversationId.substring(0, 8)}...`
quickSummary(sum, id) ==
    IF sum # NoValue /\ sum.summary # <<>> THEN sum.summary
    ELSE ConversationPrefix \o SubSeq(id, 1, Min(8, Len(id))) \o Ellipsis

\* The pass over one file: the results it pushes, none when nothing matched
\* or when the file cannot be read, which the catch of the pass logs.
quickFile(p, file, tokens, mode) ==
    IF ~IsReadable(file) THEN <<>>
    ELSE LET st == quickLines([summary |-> NoValue, matchCount |-> 0, matches |-> <<>>],
                              file.lines, 0, tokens, mode)
         IN  IF st.matchCount > 0
             THEN << [projectId |-> p,
                      conversationId |-> Basename(file.name),
                      matchCount |-> st.matchCount,
                      firstMatches |-> st.matches,
                      summary |-> quickSummary(st.summary, Basename(file.name))] >>
             ELSE <<>>

RECURSIVE quickPushes(_, _, _, _)
quickPushes(p, files, tokens, mode) ==
    IF files = <<>> THEN <<>>
    ELSE quickFile(p, Head(files), tokens, mode) \o quickPushes(p, Tail(files), tokens, mode)

\* quickSearchProject when the file passes complete in the given order.
quickSearchProject(p, files, query, mode, order) ==
    LET jsonlFiles == JsonlFiles(files)
        completed == [i \in 1..Len(jsonlFiles) |-> jsonlFiles[order[i]]]
    IN  quickPushes(p, completed, quickTokens(query, mode), mode)

RECURSIVE InsertByMatchCount(_, _)
\* allResults.sort((a, b) => b.matchCount - a.matchCount): highest count
\* first, and the sort is stable.
InsertByMatchCount(sorted, r) ==
    IF sorted = <<>> THEN <<r>>
    ELSE IF Head(sorted).matchCount < r.matchCount THEN <<r>> \o sorted
    ELSE <<Head(sorted)>> \o InsertByMatchCount(Tail(sorted), r)

RECURSIVE SortByMatchCount(_)
SortByMatchCount(results) ==
    IF results = <<>> THEN <<>>
    ELSE InsertByMatchCount(SortByMatchCount(SubSeq(results, 1, Len(results) - 1)),
                            results[Len(results)])

\* The entry of the response made from one result; t is new Date().
FormatQuick(r, t) ==
    [project |-> [id |-> r.projectId],
     conversation |-> [id |-> r.conversationId, summary |-> r.summary,
                       messageCount |-> 0, lastUpdated |-> t,
                       projectId |-> r.projectId],
     matchingMessages |-> [i \in 1..Len(r.firstMatches) |->
                             [uuid |-> r.firstMatches[i].uuid,
                              type |-> r.firstMatches[i].type,
                              timestamp |-> t,
                              content |-> r.firstMatches[i].content]],
     matchCount |-> r.matchCount]

RECURSIVE SumMatchCounts(_)
SumMatchCounts(results) ==
    IF results = <<>> THEN 0
    ELSE Head(results).matchCount + SumMatchCounts(Tail(results))

\* allResults.slice(0, 50)
TopResults(sorted) == SubSeq(sorted, 1, Min(ResultLimit, Len(sorted)))

IsLimited_atLimit(allResults) == Len(allResults) >= ResultLimit
\* limited: allResults.length > 50
IsLimited(allResults) == Len(allResults) > ResultLimit

\* The body made from the flattened results of the projects.
GlobalBody(allResults, t) ==
    LET sorted == SortByMatchCount(allResults)
        top == TopResults(sorted)
    IN  [status |-> 200,
         results |-> [i \in 1..Len(top) |-> FormatQuick(top[i], t)],
         totalMatches |-> SumMatchCounts(sorted),
         totalConversations |-> Len(sorted),
         limited |-> IsLimited(sorted)]

GlobalEmptyBody ==
    [status |-> 200, results |-> <<>>, totalMatches |-> 0, totalConversations |-> 0,
     limited |-> FALSE]

\* projectDirs, in readdir order
ProjectDirs == <<"p1", "p2">>

\* projectResults.flat() when the file passes of each project complete in
\* the order given for it.
AllResults(files, query, mode, orders) ==
    quickSearchProject("p1", files["p1"], query, mode, orders["p1"])
        \o quickSearchProject("p2", files["p2"], query, mode, orders["p2"])

\* A response, the request, the directories the handler read and the results
\* before the sort.
GlobalAnswer(body, query, mode, files, allResults, t) ==
    [body |-> body, query |-> query, mode |-> mode, files |-> files,
     allResults |-> allResults, now |-> t]

\* if (!query || !query.trim())
GlobalSearchBlank(query, mode) ==
    /\ IsBlankQuery(query)
    /\ globalResponse' = GlobalAnswer(GlobalEmptyBody, query, mode, projectFiles, <<>>, 0)
    /\ UNCHANGED <<serverVars, libVars, pageVars, navVars>>

\* The orders in which the file passes of a directory of n files complete:
\* every order for a small directory, and for a larger one the directory
\* order and its reverse.
MaxShuffled == 3

PassOrders(n) ==
    IF n <= MaxShuffled THEN CompletionOrders(n)
    ELSE { [i \in 1..n |-> i], [i \in 1..n |-> n + 1 - i] }

\* Every project is searched and the merged results are the response.
GlobalSearch(query, mode, t) ==
    /\ ~IsBlankQuery(query)
    /\ \E o1 \in PassOrders(Len(JsonlFiles(projectFiles["p1"]))),
          o2 \in PassOrders(Len(JsonlFiles(projectFiles["p2"]))) :
          LET allResults == AllResults(projectFiles, query, mode,
                                       [p \in DiskProjects |-> IF p = "p1" THEN o1 ELSE o2])
          IN  globalResponse' = GlobalAnswer(GlobalBody(allResults, t), query, mode,
                                             projectFiles, allResults, t)
    /\ UNCHANGED <<serverVars, libVars, pageVars, navVars>>

\* The conversation files of the global search scenarios: file k holds a
\* summary when k is even, then `count` user messages 'cat' and one user
\* message 'category'.
Digits == <<"0", "1", "2", "3", "4", "5", "6", "7", "8", "9">>
NumberedName(k) == <<"f", Digits[(k \div 10) + 1], Digits[(k % 10) + 1]>> \o JsonlSuffix

NumberedFile(k, count) ==
    File(NumberedName(k), TRUE,
         (IF k % 2 = 0 THEN <<SummaryLine>> ELSE <<>>)
            \o [i \in 1..count |-> CatLine] \o <<CategoryLine>>)

\* n files; with stride 0 every file has one match, otherwise one to three.
NumberedFiles(n, stride) ==
    [k \in 1..n |-> NumberedFile(k, 1 + ((k * stride) % 3))]

\* The largest number of conversation files in one project directory.
MaxProjectFiles == 26

GlobalVersions(p) ==
    IF p = "p1"
    THEN { <<FileA1>>, NumberedFiles(3, 0), NumberedFiles(MaxProjectFiles - 1, 1),
           NumberedFiles(MaxProjectFiles, 1) }
    ELSE { <<FileLocked, FileB>>, NumberedFiles(MaxProjectFiles - 1, 2) }

\* The requests of the global search scenarios and the time of new Date().
GlobalRequests ==
    { [q |-> TextCat, mode |-> "exact"], [q |-> TextCat, mode |-> "regex"],
      [q |-> <<" ">>, mode |-> "exact"] }
GlobalNows == {9}

GlobalNext ==
    \/ \E p \in DiskProjects : \E files \in GlobalVersions(p) : ChangeFiles(p, files)
    \/ \E req \in GlobalRequests : GlobalSearchBlank(req.q, req.mode)
    \/ \E req \in GlobalRequests, t \in GlobalNows : GlobalSearch(req.q, req.mode, t)

(***************************************************************************)
(* The search of the Home page (src/app/page.tsx) and of the Project page  *)
(* (src/app/project/[projectId]/page.tsx), driven by the SearchBar.        *)
(* A fetch in flight is a record of `fetches`; the results a search        *)
(* returns are represented by the request they answer.                     *)
(***************************************************************************)
MaxEdits == 3   \* edits of the search bar by the user

TextCats == TextCat \o <<"s">>
BarQueries == { <<>>, <<" ">>, TextCat, TextCats }
UrlQueries == { <<>>, TextCat }

\* data.results of the response to a request
ResultsOf(query, mode) == [q |-> query, mode |-> mode]

\* A fetch in flight. `guarded` tells the fetch of handleSearch, which has
\* a request id and an abort signal, from the fetch of the initial URL
\* effect of the Home page, which has neither.
Fetch(id, query, mode, guarded) ==
    [id |-> id, q |-> query, mode |-> mode, guarded |-> guarded, aborted |-> FALSE]

PageInit ==
    /\ page = [kind |-> "none", phase |-> "new", url |-> ResultsOf(<<>>, "exact"),
               searchQuery |-> <<>>, searchMode |-> "exact", searching |-> FALSE,
               searchResults |-> NoValue, requestId |-> 0, controller |-> 0,
               fetches |-> {}, issued |-> NoValue]
    /\ bar = [query |-> <<>>, debouncedQuery |-> <<>>, searchMode |-> "exact",
              timer |-> FALSE]
    /\ edits = 0

\* abortControllerRef.current.abort()
AbortCurrent(pg) ==
    { IF f.guarded /\ f.id = pg.controller THEN [f EXCEPT !.aborted = TRUE] ELSE f :
        f \in pg.fetches }

\* handleSearch, up to the await of the fetch.
handleSearch(pg, query, mode) ==
    IF IsBlankQuery(query)
    THEN [pg EXCEPT !.searchResults = NoValue, !.searchQuery = <<>>,
                    !.fetches = AbortCurrent(pg), !.controller = 0,
                    !.searching = FALSE]
    ELSE [pg EXCEPT !.fetches = AbortCurrent(pg)
                                    \cup {Fetch(pg.requestId + 1, query, mode, TRUE)},
                    !.controller = pg.requestId + 1,
                    !.requestId = pg.requestId + 1,
                    !.searching = TRUE, !.searchQuery = query, !.searchMode = mode,
                    !.issued = ResultsOf(query, mode)]

\* handleQueryChangeImmediate
handleQueryChangeImmediate(pg, next) ==
    IF ~IsBlankQuery(next)
    THEN [pg EXCEPT !.searchQuery = next, !.searching = TRUE]
    ELSE [pg EXCEPT !.searchQuery = next, !.searching = FALSE,
                    !.searchResults = NoValue]

\* The initial URL effect of the Home page.
InitialUrlSearch(pg, query, mode) ==
    IF query # <<>>
    THEN [pg EXCEPT !.searchQuery = query, !.searchMode = mode, !.searching = TRUE,
                    !.fetches = @ \cup {Fetch(0, query, mode, FALSE)},
                    !.issued = ResultsOf(query, mode)]
    ELSE pg

\* The Home page is opened at a URL. The search bar of its loading screen
\* runs its search effect with an empty query, then the page runs its
\* initial URL effect.
MountHome(query, mode) ==
    /\ page.phase = "new"
    /\ page' = InitialUrlSearch(
                  handleSearch([page EXCEPT !.kind = "home", !.phase = "loading",
                                            !.url = ResultsOf(query, mode)],
                               <<>>, "exact"),
                  query, mode)
    /\ UNCHANGED <<bar, edits, globalVars, navVars, serverVars, libVars>>

\* The Project page is opened at a URL; it has no initial URL effect.
MountProject(query, mode) ==
    /\ page.phase = "new"
    /\ page' = [page EXCEPT !.kind = "project", !.phase = "loading",
                            !.url = ResultsOf(query, mode)]
    /\ UNCHANGED <<bar, edits, globalVars, navVars, serverVars, libVars>>

\* The list of the page has loaded and the SearchBar of the page mounts with
\* the query and mode of the URL as defaults: its debounce effect starts a
\* timer and its search effect calls onSearch. On the Home page the empty
\* search of the loading screen may by then have removed q from the URL.
MountBar(query) ==
    /\ page.phase = "loading"
    /\ query = page.url.q \/ (page.kind = "home" /\ query = <<>>)
    /\ bar' = [query |-> query, debouncedQuery |-> query,
               searchMode |-> page.url.mode, timer |-> TRUE]
    /\ page' = handleSearch([page EXCEPT !.phase = "ready"], query, page.url.mode)
    /\ UNCHANGED <<edits, globalVars, navVars, serverVars, libVars>>

\* The user edits the text of the input: onChange.
TypeQuery(next) ==
    /\ page.phase = "ready"
    /\ edits < MaxEdits
    /\ next # bar.query
    /\ bar' = [bar EXCEPT !.query = next, !.timer = TRUE]
    /\ page' = handleQueryChangeImmediate(page, next)
    /\ edits' = edits + 1
    /\ UNCHANGED <<globalVars, navVars, serverVars, libVars>>

\* The user presses Escape or the clear button: setQuery(""), without
\* onQueryChange.
ClearQuery ==
    /\ page.phase = "ready"
    /\ edits < MaxEdits
    /\ bar.query # <<>>
    /\ bar' = [bar EXCEPT !.query = <<>>, !.timer = TRUE]
    /\ edits' = edits + 1
    /\ UNCHANGED <<page, globalVars, navVars, serverVars, libVars>>

\* The user presses a mode button; the search effect runs when the mode
\* changed.
SetSearchMode(mode) ==
    /\ page.phase = "ready"
    /\ edits < MaxEdits
    /\ mode # bar.searchMode
    /\ bar' = [bar EXCEPT !.searchMode = mode]
    /\ page' = handleSearch(page, bar.debouncedQuery, mode)
    /\ edits' = edits + 1
    /\ UNCHANGED <<globalVars, navVars, serverVars, libVars>>

\* The debounce timer fires: setDebouncedQuery(query). The search effect
\* runs only when the debounced query changed.
DebounceFires ==
    /\ bar.timer
    /\ bar' = [bar EXCEPT !.debouncedQuery = bar.query, !.timer = FALSE]
    /\ page' = IF bar.query # bar.debouncedQuery
               THEN handleSearch(page, bar.query, bar.searchMode)
               ELSE page
    /\ UNCHANGED <<edits, globalVars, navVars, serverVars, libVars>>

\* finally { if (requestId === requestIdRef.current) setSearching(false) };
\* the initial URL effect sets it without a test.
Finally(pg, f) ==
    IF ~f.guarded \/ f.id = pg.requestId THEN [pg EXCEPT !.searching = FALSE] ELSE pg

\* setSearchResults under the test of the request id; the initial URL effect
\* sets the results without a test.
SetResults(pg, f, results) ==
    IF ~f.guarded \/ f.id = pg.requestId THEN [pg EXCEPT !.searchResults = results]
    ELSE pg

Forget(pg, f) == [pg EXCEPT !.fetches = @ \ {f}]

\* A fetch returns the results of its request.
FetchOk(f) ==
    /\ f \in page.fetches /\ ~f.aborted
    /\ page' = Finally(SetResults(Forget(page, f), f, ResultsOf(f.q, f.mode)), f)
    /\ UNCHANGED <<bar, edits, globalVars, navVars, serverVars, libVars>>

\* A fetch fails, or its response is not ok.
FetchFailed(f) ==
    /\ f \in page.fetches /\ ~f.aborted
    /\ page' = Finally(SetResults(Forget(page, f), f, NoValue), f)
    /\ UNCHANGED <<bar, edits, globalVars, navVars, serverVars, libVars>>

\* An aborted fetch rejects with an AbortError, which the catch ignores.
FetchAborted(f) ==
    /\ f \in page.fetches /\ f.aborted
    /\ page' = Finally(Forget(page, f), f)
    /\ UNCHANGED <<bar, edits, globalVars, navVars, serverVars, libVars>>

FetchCompletes ==
    \E f \in page.fetches : FetchOk(f) \/ FetchFailed(f) \/ FetchAborted(f)

Mounts ==
    \/ \E query \in UrlQueries, mode \in Modes : MountHome(query, mode)
    \/ \E query \in UrlQueries, mode \in Modes : MountProject(query, mode)
    \/ \E query \in UrlQueries : MountBar(query)

PageNext ==
    \/ \E query \in UrlQueries, mode \in Modes : MountHome(query, mode)
    \/ \E query \in UrlQueries, mode \in Modes : MountProject(query, mode)
    \/ \E query \in UrlQueries : MountBar(query)
    \/ \E next \in BarQueries : TypeQuery(next)
    \/ ClearQuery
    \/ \E mode \in Modes : SetSearchMode(mode)
    \/ DebounceFires
    \/ \E f \in page.fetches : FetchOk(f)
    \/ \E f \in page.fetches : FetchFailed(f)
    \/ \E f \in page.fetches : FetchAborted(f)

\* The timer fires, every fetch settles and the page and its bar mount.
PageFairness ==
    /\ WF_vars(DebounceFires)
    /\ WF_vars(FetchCompletes)
    /\ WF_vars(Mounts)

(***************************************************************************)
(* The hook useKeyboardNavigation. `nav` holds the props and the state of  *)
(* the latest render, the keydown listener registered on window with the   *)
(* values its handler closed over, whether the effects of the latest       *)
(* render are still to run, and the callbacks called by the last step.     *)
(* React runs the effects of a render caused by a key event before the     *)
(* next event, and those of any other render later, so that a key event    *)
(* can reach the listener of the render before.                            *)
(***************************************************************************)
MaxItems == 3   \* the longest list of items

Keys == {"ArrowDown", "ArrowUp", "Enter", "Escape"}

\* wrapAround = true and onEnter, as both pages call the hook
wrapAround == TRUE
hasOnEnter == TRUE

NavInit ==
    nav = [itemCount |-> 0, isActive |-> TRUE, selectedIndex |-> -1,
           listener |-> NoValue, pending |-> TRUE, calls |-> <<>>]

\* A call of onSelect or onEnter, and the itemCount of the latest render
\* when it is made.
NavCall(n, fn, index) == [fn |-> fn, index |-> index, itemCount |-> n.itemCount]

\* useCallback(..., [isActive, itemCount, selectedIndex, ...]): the values
\* handleKeyDown closes over.
handleKeyDownOf(n) ==
    [isActive |-> n.isActive, itemCount |-> n.itemCount,
     selectedIndex |-> n.selectedIndex]

\* useEffect: onSelect(selectedIndex) when the index is within the list
selectEffect(n) ==
    IF n.selectedIndex >= 0 /\ n.selectedIndex < n.itemCount
    THEN [n EXCEPT !.calls = Append(@, NavCall(n, "onSelect", n.selectedIndex))]
    ELSE n

\* useEffect: the listener is registered when isActive, removed otherwise
listenerEffect(n) ==
    [n EXCEPT !.listener = IF n.isActive THEN handleKeyDownOf(n) ELSE NoValue]

\* useEffect: if (selectedIndex >= itemCount) setSelectedIndex(itemCount - 1),
\* which renders again
clampEffect(n) ==
    IF n.selectedIndex >= n.itemCount
    THEN [n EXCEPT !.selectedIndex = n.itemCount - 1, !.pending = TRUE]
    ELSE [n EXCEPT !.pending = FALSE]

\* The effects of the latest render, in the order of the hook.
RunEffects(n) == clampEffect(listenerEffect(selectEffect(n)))

\* The effects still to run are run before the next render.
PreFlush(n) == IF n.pending THEN RunEffects(n) ELSE n

\* The effects of a render caused by a key event, and of the render its
\* clamp effect causes, run at once.
FlushAll(n) ==
    LET once == RunEffects(n)
    IN  IF once.pending THEN RunEffects(once) ELSE once

\* setSelectedIndex(prev => ...) of ArrowDown, with the itemCount of the
\* handler
ArrowDown(prev, itemCount) ==
    IF prev = -1 THEN 0
    ELSE IF prev + 1 >= itemCount THEN (IF wrapAround THEN 0 ELSE itemCount - 1)
    ELSE prev + 1

\* setSelectedIndex(prev => ...) of ArrowUp
ArrowUp(prev, itemCount) ==
    IF prev = -1 THEN itemCount - 1
    ELSE IF prev - 1 < 0 THEN (IF wrapAround THEN itemCount - 1 ELSE 0)
    ELSE prev - 1

\* The state update of a key event renders: the effects still to run are run
\* first, a selection their clamp effect sets being queued after the update
\* of the handler, then the render and its effects.
Rerender(n, index) ==
    LET flushed == PreFlush(n)
        chosen == IF flushed.selectedIndex # n.selectedIndex
                  THEN flushed.selectedIndex ELSE index
    IN  FlushAll([flushed EXCEPT !.selectedIndex = chosen, !.pending = TRUE])

\* handleKeyDown of the registered listener, h being the values it closed
\* over.
handleKeyDown(n, h, key) ==
    IF ~h.isActive \/ h.itemCount = 0 THEN n
    ELSE IF key = "ArrowDown"
        THEN Rerender(n, ArrowDown(n.selectedIndex, h.itemCount))
    ELSE IF key = "ArrowUp"
        THEN Rerender(n, ArrowUp(n.selectedIndex, h.itemCount))
    ELSE IF key = "Escape"
        THEN Rerender(n, -1)
    ELSE IF h.selectedIndex >= 0 /\ h.selectedIndex < h.itemCount
        THEN [n EXCEPT !.calls = Append(@, NavCall(n, IF hasOnEnter THEN "onEnter"
                                                      ELSE "onSelect",
                                                   h.selectedIndex))]
    ELSE n

\* Forget the calls of the step before.
Fresh(n) == [n EXCEPT !.calls = <<>>]

\* A key is pressed while a listener is registered.
KeyDown(key) ==
    /\ nav.listener # NoValue
    /\ nav' = handleKeyDown(Fresh(nav), nav.listener, key)
    /\ UNCHANGED <<globalVars, pageVars, serverVars, libVars>>

\* The page renders the hook with another number of items.
ChangeItemCount(count) ==
    /\ count # nav.itemCount
    /\ nav' = [PreFlush(Fresh(nav)) EXCEPT !.itemCount = count, !.pending = TRUE]
    /\ UNCHANGED <<globalVars, pageVars, serverVars, libVars>>

\* The page renders the hook with another isActive.
ChangeActive(active) ==
    /\ active # nav.isActive
    /\ nav' = [PreFlush(Fresh(nav)) EXCEPT !.isActive = active, !.pending = TRUE]
    /\ UNCHANGED <<globalVars, pageVars, serverVars, libVars>>

\* reset(): setSelectedIndex(-1), called by an effect of the page.
NavReset ==
    /\ nav.selectedIndex # -1
    /\ nav' = [PreFlush(Fresh(nav)) EXCEPT !.selectedIndex = -1, !.pending = TRUE]
    /\ UNCHANGED <<globalVars, pageVars, serverVars, libVars>>

\* The effects of the latest render run.
FlushEffects ==
    /\ nav.pending
    /\ nav' = RunEffects(Fresh(nav))
    /\ UNCHANGED <<globalVars, pageVars, serverVars, libVars>>

NavNext ==
    \/ \E key \in Keys : KeyDown(key)
    \/ \E count \in 0..MaxItems : ChangeItemCount(count)
    \/ \E active \in BOOLEAN : ChangeActive(active)
    \/ NavReset
    \/ FlushEffects

ClientInit == GlobalInit /\ PageInit /\ NavInit

InitParser == ParserInit /\ FastInit /\ PsiInit /\ ServerInit /\ ClientInit
InitSearch == ParserIdle /\ FastInit /\ PsiInit /\ ServerInit /\ ClientInit
InitServer == ParserIdle /\ FastInit /\ PsiInit /\ ServerInit /\ ClientInit

\* One call of parseConversationStream on one log.
SpecParser == InitParser /\ [][ParserNext]_vars

\* One FastProjectSearchIndex, built and searched.
SpecFast == InitSearch /\ [][FastNext]_vars

\* One ProjectSearchIndex, built and searched.
SpecPsi == InitSearch /\ [][PsiNext]_vars

\* The project search route serving requests while time passes and the log
\* files change.
SpecCache == InitServer /\ [][CacheNext]_vars

\* The project search route serving requests of both modes.
SpecSearchMode == InitServer /\ [][SearchModeNext]_vars

\* The global search route serving requests while the log files change.
SpecGlobal == InitServer /\ [][GlobalNext]_vars

\* A page and its search bar, from the opening of the page.
SpecPage == InitServer /\ [][PageNext]_vars

\* The same, where timers fire and fetches settle.
SpecPageLive == SpecPage /\ PageFairness

\* A use of the hook useKeyboardNavigation.
SpecNav == InitServer /\ [][NavNext]_vars

\* The project statistics route serving requests while time passes, the log
\* files change and the snapshot file is damaged.
SpecStats == InitServer /\ [][StatsNext]_vars

\* The conversation list route serving requests while the log files change.
SpecList == InitServer /\ [][ListNext]_vars

(***************************************************************************)
(* Properties of parseConversationStream (SpecParser).                     *)
(***************************************************************************)
IsRecord(line) == line.kind = "rec"
IsMessageLine(line) == IsRecord(line) /\ IsMessageType(line.type)
IsSummaryLine(line) == IsRecord(line) /\ IsSummaryType(line.type)

\* The valid user / assistant / system records of the log, in log order.
ValidMessageLines == SelectSeq(log, IsMessageLine)

\* C1: whatever the log, unparsable lines are skipped and the messages are
\* exactly the valid user / assistant / system records of the log, in log
\* order; the returned record carries them and messageCount is their number.
C1_MessagesAreValidRecords ==
    /\ Len(messages) = Len(ValidMessageLines)
    /\ \A i \in 1..Len(messages) :
          /\ messages[i].uuid = ValidMessageLines[i].uuid
          /\ messages[i].type = ValidMessageLines[i].type
          /\ messages[i].timestamp = ValidMessageLines[i].timestamp
          /\ messages[i].message = ValidMessageLines[i].message
          /\ messages[i].content = ValidMessageLines[i].content
    /\ pc = "done" =>
          /\ conversation.messages = messages
          /\ conversation.messageCount = Len(conversation.messages)

\* A valid message, an unparsable line, a valid message: both messages kept.
C1_Witness ==
    /\ pc = "done"
    /\ Len(log) = 3
    /\ IsMessageLine(log[1]) /\ log[2] = BadLine /\ IsMessageLine(log[3])
    /\ log[1] # log[3]
    /\ conversation.messageCount = 2
    /\ conversation.messages[1].uuid = log[1].uuid
    /\ conversation.messages[2].uuid = log[3].uuid

\* The number of sidechains open after the lines of a log prefix: a start
\* opens one, an end closes one if one is open.
RECURSIVE OpenSidechains(_)
OpenSidechains(prefix) ==
    IF prefix = <<>> THEN 0
    ELSE LET before == OpenSidechains(SubSeq(prefix, 1, Len(prefix) - 1))
             last == prefix[Len(prefix)]
         IN  IF IsRecord(last) /\ last.type = "sidechain.start" THEN before + 1
             ELSE IF IsRecord(last) /\ last.type = "sidechain.end" /\ before > 0 THEN before - 1
             ELSE before

\* The place in the log of the i-th message.
MessageLinePos(i) ==
    CHOOSE k \in 1..Len(log) :
        /\ IsMessageLine(log[k])
        /\ Cardinality({ j \in 1..k : IsMessageLine(log[j]) }) = i

DanglingEndPrefix ==
    <<SidechainStartLine, SidechainStartLine, SidechainEndLine, SidechainEndLine,
      SidechainEndLine>>

\* C2: the depth counter is never negative; a user / assistant message is
\* tagged isSidechain exactly when a sidechain is open where it is read; after
\* start, start, end, end and one extra end the counter is 0 and the messages
\* that follow (with no new start) are not tagged.
C2_SidechainDepth ==
    /\ sideChainDepth >= 0
    /\ Len(messages) = Len(ValidMessageLines) =>
         \A i \in 1..Len(messages) :
            messages[i].type \in {"user", "assistant"} =>
               (messages[i].isSidechain
                    <=> OpenSidechains(SubSeq(log, 1, MessageLinePos(i) - 1)) > 0)
    /\ Len(log) >= 5 /\ SubSeq(log, 1, 5) = DanglingEndPrefix =>
         /\ Len(log) = 5 => sideChainDepth = 0
         /\ (\A k \in 6..Len(log) : log[k] # SidechainStartLine) =>
               \A i \in 1..Len(messages) : ~messages[i].isSidechain

\* start, start, end, end, end, then a user message whose record says
\* isSidechain: true; the message is read at depth 0 and is not tagged.
C2_Witness ==
    /\ log = DanglingEndPrefix \o <<UserShortLine>>
    /\ UserShortLine.isSidechain
    /\ sideChainDepth = 0
    /\ Len(messages) = 1
    /\ ~messages[1].isSidechain

\* A nested sidechain: a message between start, start and end is tagged.
C2_WitnessNested ==
    /\ log = <<SidechainStartLine, SidechainStartLine, SidechainEndLine, AssistantLine>>
    /\ messages[1].isSidechain

\* The leading run of summary records: the lines before the first record
\* that is not a summary (blank and unparsable lines are no records).
LeadingRunEnd ==
    IF \E k \in 1..Len(log) : IsRecord(log[k]) /\ ~IsSummaryType(log[k].type)
    THEN (CHOOSE k \in 1..Len(log) :
            /\ IsRecord(log[k]) /\ ~IsSummaryType(log[k].type)
            /\ \A j \in 1..(k - 1) : ~(IsRecord(log[j]) /\ ~IsSummaryType(log[j].type))) - 1
    ELSE Len(log)

LeadingSummaries == SelectSeq(SubSeq(log, 1, LeadingRunEnd), IsSummaryLine)

\* C9: when the log starts with one or more consecutive summary records, the
\* conversation's summary is the last record of that leading run, whatever
\* records follow the run.
C9_LeadingSummaryWins ==
    (pc = "done" /\ LeadingSummaries # <<>>) =>
        conversation.summary = LeadingSummaries[Len(LeadingSummaries)]

NoSummaryRecord == \A k \in 1..Len(log) : ~IsSummaryLine(log[k])

HasFirstUser == FirstUserIndex(messages) # 0
FirstUserMessage == messages[FirstUserIndex(messages)]

\* C10, as claimed: with no summary record and a first user message with
\* text, the synthesized summary text is the first 50 characters of the
\* message's text followed by an ellipsis when the text is longer than 50
\* characters, and the text unchanged otherwise.
C10_SummaryIsTextPrefix ==
    (pc = "done" /\ NoSummaryRecord /\ HasFirstUser
        /\ extractMessageText(FirstUserMessage) # <<>>) =>
        LET text == extractMessageText(FirstUserMessage)
        IN  conversation.summary.summary =
                IF Len(text) > 50
                THEN [i \in 1..50 |-> text[i]] \o <<".", ".", ".">>
                ELSE text

\* The text the summary is cut from: the string content, or the text of the
\* first text block of block content.
HasSummarySource ==
    /\ HasFirstUser
    /\ \/ /\ FirstUserMessage.message.shape = "string"
          /\ \E i \in 1..Len(FirstUserMessage.message.str) :
                FirstUserMessage.message.str[i] \notin WhiteSpace
       \/ /\ FirstUserMessage.message.shape = "blocks"
          /\ \E b \in 1..Len(FirstUserMessage.message.blocks) :
                FirstUserMessage.message.blocks[b].type = "text"

SummarySource ==
    IF FirstUserMessage.message.shape = "string" THEN FirstUserMessage.message.str
    ELSE LET blocks == FirstUserMessage.message.blocks
         IN  blocks[CHOOSE b \in 1..Len(blocks) :
                       /\ blocks[b].type = "text"
                       /\ \A c \in 1..(b - 1) : blocks[c].type # "text"].text

\* s without its leading and trailing white space.
Stripped(s) ==
    IF \A i \in 1..Len(s) : s[i] \in WhiteSpace THEN <<>>
    ELSE LET first == CHOOSE i \in 1..Len(s) :
                        s[i] \notin WhiteSpace /\ \A j \in 1..(i - 1) : s[j] \in WhiteSpace
             last  == CHOOSE i \in 1..Len(s) :
                        s[i] \notin WhiteSpace /\ \A j \in (i + 1)..Len(s) : s[j] \in WhiteSpace
         IN  [i \in 1..(last - first + 1) |-> s[first + i - 1]]

\* C10, amended: with no summary record and a first user message whose
\* string content (not blank) or first text block is T, the synthesized
\* summary text is the first 50 characters of T stripped of surrounding white
\* space followed by "..." when the stripped T is longer than 50 characters,
\* and the stripped T unchanged otherwise.
C10_SummaryIsTrimmedPrefix ==
    (pc = "done" /\ NoSummaryRecord /\ HasSummarySource) =>
        LET text == Stripped(SummarySource)
        IN  conversation.summary.summary =
                IF Len(text) > 50
                THEN [i \in 1..50 |-> text[i]] \o <<".", ".", ".">>
                ELSE text

\* A first user message of 2 + 52 characters: the summary is the 50 first
\* characters after the two blanks, and three dots.
C10_Witness ==
    /\ pc = "done" /\ NoSummaryRecord /\ HasSummarySource
    /\ SummarySource = TextPaddedOver
    /\ Len(conversation.summary.summary) = 53
    /\ conversation.summary.summary[1] = TextPaddedOver[3]
    /\ conversation.summary.summary[50] = TextPaddedOver[52]

\* A user message with text: a string content that is not blank, or a text
\* block that is not blank.
UserHasText(m) ==
    /\ m.type = "user"
    /\ \/ m.message.shape = "string" /\ ~(\A i \in 1..Len(m.message.str) :
                                            m.message.str[i] \in WhiteSpace)
       \/ /\ m.message.shape = "blocks"
          /\ \E b \in 1..Len(m.message.blocks) :
                /\ m.message.blocks[b].type = "text"
                /\ ~(\A i \in 1..Len(m.message.blocks[b].text) :
                        m.message.blocks[b].text[i] \in WhiteSpace)

\* The texts of a user message.
UserTexts(m) ==
    IF m.message.shape = "string" THEN {m.message.str}
    ELSE IF m.message.shape = "blocks"
        THEN { m.message.blocks[b].text :
                 b \in { c \in 1..Len(m.message.blocks) : m.message.blocks[c].type = "text" } }
    ELSE {}

\* The first 50 characters of the stripped text, with the ellipsis when cut.
CutOf(text) ==
    IF Len(Stripped(text)) > 50
    THEN [i \in 1..50 |-> Stripped(text)[i]] \o <<".", ".", ".">>
    ELSE Stripped(text)

\* "Conversation " followed by the first eight characters of the file name.
FallbackText == ConversationPrefix \o [i \in 1..8 |-> conversationId[i]]

SomeUserHasText == \E i \in 1..Len(messages) : UserHasText(messages[i])

\* C11: with no summary record, the synthesized summary is the fallback
\* string only when no user message of the log has text; whenever some user
\* message has text, the summary text is cut from the text of a user message.
\* Its timestamp is the first user message's timestamp, or the clock reading
\* of the call when the log has no user message.
C11_SummaryFromUserText ==
    (pc = "done" /\ NoSummaryRecord) =>
        /\ conversation.summary.summary = FallbackText => ~SomeUserHasText
        /\ SomeUserHasText =>
              \E i \in 1..Len(messages) :
                 /\ UserHasText(messages[i])
                 /\ \E t \in UserTexts(messages[i]) :
                       conversation.summary.summary = CutOf(t)
        /\ (HasFirstUser /\ FirstUserMessage.timestamp # 0) =>
              conversation.summary.timestamp = FirstUserMessage.timestamp
        /\ ~HasFirstUser => conversation.summary.timestamp = now

\* The timestamp of the last message of the log that carries one, 0 if none.
LastStampedMessage ==
    LET stamped == { k \in 1..Len(log) : IsMessageLine(log[k]) /\ log[k].timestamp # 0 }
    IN  IF stamped = {} THEN 0
        ELSE log[CHOOSE k \in stamped : \A j \in stamped : j <= k].timestamp

\* The timestamp of the final message of the log, 0 if it has none or the
\* log has no message.
FinalMessageStamp ==
    IF ValidMessageLines = <<>> THEN 0
    ELSE ValidMessageLines[Len(ValidMessageLines)].timestamp

\* C12, as claimed: lastUpdated is the summary's timestamp when the summary
\* has one, otherwise the timestamp of the final message of the log,
\* otherwise the clock reading of the call; it is never empty.
C12_LastUpdatedFinalMessage ==
    pc = "done" =>
        /\ conversation.lastUpdated # 0
        /\ conversation.lastUpdated =
              IF conversation.summary.timestamp # 0 THEN conversation.summary.timestamp
              ELSE IF FinalMessageStamp # 0 THEN FinalMessageStamp
              ELSE now

\* C12, amended: lastUpdated is the summary's timestamp when the summary has
\* one, otherwise the timestamp of the last message of the log that carries
\* a timestamp, otherwise the clock reading at the start of the call; it is
\* never empty.
C12_LastUpdatedLastStamped ==
    pc = "done" =>
        /\ conversation.lastUpdated # 0
        /\ conversation.lastUpdated =
              IF conversation.summary.timestamp # 0 THEN conversation.summary.timestamp
              ELSE IF LastStampedMessage # 0 THEN LastStampedMessage
              ELSE now

\* A summary record without a timestamp, a message with a timestamp and a
\* final message without one: lastUpdated is the timestamp of the former.
C12_Witness ==
    /\ pc = "done"
    /\ Len(log) = 3
    /\ IsSummaryLine(log[1]) /\ log[1].timestamp = 0
    /\ IsMessageLine(log[2]) /\ log[2].timestamp # 0
    /\ IsMessageLine(log[3]) /\ log[3].timestamp = 0
    /\ conversation.summary.timestamp = 0
    /\ conversation.lastUpdated = log[2].timestamp

\* A summary record with a timestamp ahead of a message with another one:
\* lastUpdated is the summary's.
C12_WitnessSummary ==
    /\ pc = "done"
    /\ Len(log) = 2
    /\ IsSummaryLine(log[1]) /\ log[1].timestamp # 0
    /\ IsMessageLine(log[2]) /\ log[2].timestamp # 0
    /\ log[2].timestamp # log[1].timestamp
    /\ conversation.lastUpdated = log[1].timestamp

\* C13: parsing the same unchanged log twice, at any two times, yields the
\* same record: the same messages in the same order, the same summary with
\* the same timestamp, and the same lastUpdated.
C13_ReparseIdentical ==
    pc = "reparsed" =>
        /\ reparsed.messages = conversation.messages
        /\ reparsed.summary = conversation.summary
        /\ reparsed.lastUpdated = conversation.lastUpdated

(***************************************************************************)
(* Properties of FastProjectSearchIndex.search (SpecFast).                 *)
(***************************************************************************)
IsBlank(s) == \A i \in 1..Len(s) : s[i] \in WhiteSpace

\* The tokens of a query: its maximal runs of characters other than white space.
QueryTokens(q) ==
    { SubSeq(q, x[1], x[2]) :
        x \in { y \in (1..Len(q)) \X (1..Len(q)) :
                  /\ y[1] <= y[2]
                  /\ \A k \in y[1]..y[2] : q[k] \notin WhiteSpace
                  /\ (y[1] = 1 \/ q[y[1] - 1] \in WhiteSpace)
                  /\ (y[2] = Len(q) \/ q[y[2] + 1] \in WhiteSpace) } }

\* phrase occurs in text at offset p, letter case ignored.
OccursAt(text, phrase, p) ==
    /\ p + Len(phrase) <= Len(text)
    /\ \A k \in 1..Len(phrase) : ToLowerChar(text[p + k]) = ToLowerChar(phrase[k])

OccursIn(text, phrase) == \E p \in 0..Len(text) : OccursAt(text, phrase, p)

\* Every matched entry has a result for its conversation and every result
\* has a matched entry.
ResultsFollowMatches ==
    /\ \A i \in 1..Len(entries) :
          call.matches[i] =>
             \E r \in 1..Len(call.results) :
                call.results[r].conversation.id = entries[i].conversationId
    /\ \A r \in 1..Len(call.results) :
          \E i \in 1..Len(entries) :
             call.matches[i] /\ entries[i].conversationId = call.results[r].conversation.id

\* C3: in partial ('regex') mode, for a query with at least one token, an
\* entry matches if and only if every token of the query occurs in the
\* entry's text, letter case ignored, in any order and anywhere.
C3_TokenAnd ==
    (call.op = "search" /\ call.mode = "regex" /\ ~IsBlank(call.query)) =>
        /\ Len(call.matches) = Len(entries)
        /\ \A i \in 1..Len(entries) :
              call.matches[i] <=>
                 \A t \in QueryTokens(call.query) : OccursIn(entries[i].text, t)
        /\ ResultsFollowMatches

\* The query "sat  cat" finds "a cat sat": both tokens occur, in the other
\* order and apart; the same search does not find "category".
C3_Witness ==
    /\ call.op = "search" /\ call.mode = "regex"
    /\ call.query = <<"s", "a", "t", " ", " ", "c", "a", "t">>
    /\ Len(entries) = 2
    /\ entries[1].text = TextCatSat /\ call.matches[1]
    /\ entries[2].text = TextCategory /\ ~call.matches[2]
    /\ Len(call.results) = 1

\* A word character stands at position i of text.
IsWordAt(text, i) ==
    i \in 1..Len(text) /\ text[i] \notin WhiteSpace /\ text[i] \notin Punctuation

\* phrase occurs at offset p with a word boundary before and after it.
BoundedOccurrence(text, phrase, p) ==
    /\ OccursAt(text, phrase, p)
    /\ IsWordAt(text, p) # IsWordAt(text, p + 1)
    /\ IsWordAt(text, p + Len(phrase)) # IsWordAt(text, p + Len(phrase) + 1)

\* C4: in exact mode an entry matches only if the whole query phrase (the
\* query without surrounding white space) occurs in its text between two word
\* boundaries, letter case ignored; for a query that is not blank every such
\* entry matches. "cat" matches "a cat sat" and does not match "category".
C4_WordBoundary ==
    (call.op = "search" /\ call.mode = "exact") =>
        /\ Len(call.matches) = Len(entries)
        /\ \A i \in 1..Len(entries) :
              /\ call.matches[i] =>
                    \E p \in 0..Len(entries[i].text) :
                        BoundedOccurrence(entries[i].text, Stripped(call.query), p)
              /\ ~IsBlank(call.query) =>
                    ((\E p \in 0..Len(entries[i].text) :
                        BoundedOccurrence(entries[i].text, Stripped(call.query), p))
                     => call.matches[i])
              /\ (Stripped(call.query) = TextCat /\ entries[i].text = TextCatSat)
                    => call.matches[i]
              /\ (Stripped(call.query) = TextCat /\ entries[i].text = TextCategory)
                    => ~call.matches[i]
        /\ ResultsFollowMatches

\* An exact search for "cat" over "a cat sat" and "category".
C4_Witness ==
    /\ call.op = "search" /\ call.mode = "exact"
    /\ call.query = TextCat
    /\ Len(entries) = 2
    /\ entries[1].text = TextCatSat /\ call.matches[1]
    /\ entries[2].text = TextCategory /\ ~call.matches[2]
    /\ Len(call.results) = 1
    /\ call.results[1].matchCount = 1

\* C5: at most one result per conversation; results are ordered by matchCount
\* descending, and results with equal matchCount by their conversation's
\* lastUpdated descending.
C5_Ranking ==
    call.op = "search" =>
        \A i \in 1..Len(call.results) : \A j \in (i + 1)..Len(call.results) :
            /\ call.results[i].conversation.id # call.results[j].conversation.id
            /\ call.results[i].matchCount >= call.results[j].matchCount
            /\ call.results[i].matchCount = call.results[j].matchCount =>
                  call.results[i].conversation.lastUpdated
                      >= call.results[j].conversation.lastUpdated

\* Two conversations with the same number of matches: c2, updated later,
\* was indexed after c1 and comes first.
C5_Witness ==
    /\ call.op = "search"
    /\ Len(call.results) = 2
    /\ entries[1].conversationId = "c1"
    /\ call.results[1].conversation.id = "c2"
    /\ call.results[2].conversation.id = "c1"
    /\ call.results[1].matchCount = call.results[2].matchCount
    /\ call.results[1].conversation.lastUpdated > call.results[2].conversation.lastUpdated

\* C6: an empty or white-space-only query returns no result, in either mode,
\* whatever the index holds.
C6_BlankQuery ==
    (call.op = "search" /\ IsBlank(call.query)) => call.results = <<>>

\* A white-space query in exact mode on an index with entries.
C6_Witness ==
    /\ call.op = "search" /\ call.mode = "exact"
    /\ call.query = <<" ", "\n">>
    /\ Len(entries) = 2
    /\ call.results = <<>>

\* C6 in partial mode.
C6_WitnessPartial ==
    /\ call.op = "search" /\ call.mode = "regex"
    /\ call.query = <<>>
    /\ Len(entries) = 2
    /\ call.results = <<>>

IsPunctuationOnly(q) == q # <<>> /\ \A i \in 1..Len(q) : q[i] \in Punctuation

\* C7: a query made only of punctuation returns no result, whatever the
\* index holds (ProjectSearchIndex.search).
C7_PunctuationQuery ==
    (psiCall.op = "search" /\ IsPunctuationOnly(psiCall.query)) => psiCall.results = <<>>

\* C7 for FastProjectSearchIndex.search.
C7_PunctuationQueryFast ==
    (call.op = "search" /\ IsPunctuationOnly(call.query)) => call.results = <<>>

\* C8: in every result no message appears twice among the matching messages,
\* and matchCount is the number of distinct message ids of the conversation
\* whose indexed text matched the query.
C8_DistinctMatches ==
    call.op = "search" =>
        \A r \in 1..Len(call.results) :
            LET res == call.results[r]
            IN  /\ \A i \in 1..Len(res.matchingMessages) :
                      \A j \in (i + 1)..Len(res.matchingMessages) :
                          res.matchingMessages[i].uuid # res.matchingMessages[j].uuid
                /\ res.matchCount =
                      Cardinality({ entries[i].messageId :
                                      i \in { k \in 1..Len(entries) :
                                                /\ call.matches[k]
                                                /\ entries[k].conversationId
                                                      = res.conversation.id } })

(***************************************************************************)
(* Properties of FastProjectSearchIndex.buildIndex (SpecFast).             *)
(***************************************************************************)
\* The positions <<c, m>> of the messages with text of the conversations
\* handed to the latest buildIndex call.
IndexedPositions ==
    { x \in (1..Len(indexed)) \X (1..2) :
        /\ x[2] <= Len(indexed[x[1]].messages)
        /\ extractSearchableText(indexed[x[1]].messages[x[2]]) # <<>> }

IndexedTexts ==
    { extractSearchableText(indexed[x[1]].messages[x[2]]) : x \in IndexedPositions }

IndexedIds == { indexed[c].id : c \in 1..Len(indexed) }

\* Every token of the query occurs in the text, letter case ignored.
PartialHit(text, q) == \A t \in QueryTokens(q) : OccursIn(text, t)

\* C14: after buildIndex(C2) on an index built before from C1, the index
\* holds exactly the entries and conversations of C2: every entry is a message
\* of C2 and every message of C2 with text has its entry, a query that matches
\* no text of C2 returns no result even when it matches text of C1, and
\* getStats reports the conversations and messages of C2 only.
C14_RebuildReplaces ==
    builds >= 2 =>
        /\ Len(entries) = Cardinality(IndexedPositions)
        /\ \A i \in 1..Len(entries) :
              \E x \in IndexedPositions :
                 /\ entries[i].conversationId = indexed[x[1]].id
                 /\ entries[i].messageId = indexed[x[1]].messages[x[2]].uuid
                 /\ entries[i].text = extractSearchableText(indexed[x[1]].messages[x[2]])
        /\ DOMAIN conversationMap = IndexedIds
        /\ (call.op = "search" /\ call.mode = "regex" /\ ~IsBlank(call.query)
              /\ \A t \in IndexedTexts : ~PartialHit(t, call.query))
              => call.results = <<>>
        /\ call.op = "search" =>
              \A r \in 1..Len(call.results) :
                 \E c \in 1..Len(indexed) : call.results[r].conversation = indexed[c]
        /\ call.op = "getStats" =>
              /\ call.stats.totalConversations = Cardinality(IndexedIds)
              /\ call.stats.totalMessages = Cardinality(IndexedPositions)

\* An index that holds entries is rebuilt from a conversation holding
\* "category" only: the query "cat sat" finds nothing.
C14_Witness ==
    /\ builds = 2
    /\ hadEntries
    /\ indexed = <<Conv("c1", 1, <<UserMessage("m1", TextCategory)>>)>>
    /\ call.op = "search" /\ call.mode = "regex"
    /\ call.query = <<"c", "a", "t", " ", "s", "a", "t">>
    /\ call.results = <<>>

\* The same rebuild, then getStats: one conversation and one message.
C14_WitnessStats ==
    /\ builds = 2
    /\ hadEntries
    /\ Len(indexed) = 1 /\ Len(indexed[1].messages) = 1
    /\ call.op = "getStats"
    /\ call.stats.totalConversations = 1
    /\ call.stats.totalMessages = 1

(***************************************************************************)
(* Properties of the project search cache (SpecCache).                     *)
(***************************************************************************)
\* The last response answers a request that reached the cache: its query is
\* not blank and its project directory exists.
ReachedCache ==
    /\ response.body.status # 0
    /\ response.projectId \in DiskProjects
    /\ \E i \in 1..Len(response.query) : response.query[i] \notin WhiteSpace

\* The request arrived less than 5 minutes after the entry of its project
\* was cached.
ArrivedFresh ==
    /\ response.cacheAtArrival # NoValue
    /\ response.arrivedAt - response.cacheAtArrival.timestamp < 5 * 60 * 1000

\* The cached index was searched as it was: no directory was read and the
\* cache was left as it was.
Reused ==
    /\ response.index = response.cacheAtArrival.index
    /\ ~response.logsRead.read
    /\ indexCache = response.cacheBefore

\* The .jsonl files of the directory content that the request read.
LogsRead ==
    { i \in 1..Len(response.logsRead.files) :
        LET name == response.logsRead.files[i].name
        IN  Len(name) >= 6 /\ SubSeq(name, Len(name) - 5, Len(name)) = JsonlSuffix }

\* An index was built from the logs that the request read and it replaced
\* the cache entry of the project.
Rebuilt ==
    /\ response.logsRead.read
    /\ response.index # NoValue
    /\ DOMAIN response.index.conversationMap =
          { SubSeq(response.logsRead.files[i].name, 1,
                   Len(response.logsRead.files[i].name) - 6) :
              i \in { k \in LogsRead : response.logsRead.files[k].readable } }
    /\ indexCache[response.projectId] # NoValue
    /\ indexCache[response.projectId].index = response.index

OtherEntriesKept ==
    \A q \in RequestedProjects :
        q # response.projectId => indexCache[q] = response.cacheBefore[q]

C15_WitnessRebuild ==
    /\ ReachedCache /\ ~ArrivedFresh /\ Rebuilt
    /\ response.projectId = "p1"
    /\ response.cacheAtArrival # NoValue
    /\ response.cacheAtArrival.timestamp = 0
    /\ response.arrivedAt = CACHE_TTL
    /\ indexCache["p1"].timestamp = CACHE_TTL
    /\ response.body.indexStats.totalConversations = 2
    /\ indexCache["p2"] # NoValue

(***************************************************************************)
(* Properties of the project statistics route (SpecStats).                 *)
(***************************************************************************)
StatsAnswered  == statsResponse # NoValue
StatsSucceeded == StatsAnswered /\ statsResponse.body.status = 200
FromSnapshot   == StatsSucceeded /\ statsResponse.from = "snapshot"
FromLogs       == StatsSucceeded /\ statsResponse.from = "logs"

\* The names of the conversation files the directory held when the handler
\* chose between the snapshot and the logs.
ConversationFilesSeen == FileNames(JsonlFiles(statsResponse.files))

\* A readable, parsable snapshot is served exactly when its modification
\* time is at least that of the directory.
ServedIffCurrent ==
    (StatsSucceeded /\ statsResponse.snapshotAtArrival.state = "ok") =>
        (statsResponse.from = "snapshot" <=>
            statsResponse.snapshotAtArrival.mtime >= statsResponse.dirMtimeAtArrival)

\* A response that is not the snapshot holds the statistics of the logs as
\* the handler read them, and the snapshot it wrote holds the same.
RecomputedAndOverwritten ==
    FromLogs =>
        /\ statsResponse.body.stats =
              ComputeStats(statsResponse.projectId, statsResponse.files)
        /\ statsResponse.written =>
              /\ statsResponse.snapshotAfter.state = "ok"
              /\ statsResponse.snapshotAfter.data = statsResponse.body.stats

\* A served snapshot was computed from every conversation file the
\* directory holds.
ServedCoversDirectory ==
    FromSnapshot =>
        ConversationFilesSeen \subseteq statsResponse.snapshotAtArrival.sources

\* C16: getProjectStats serves the snapshot if and only if the snapshot's
\* modification time is at least the directory's; otherwise it recomputes the
\* statistics from the logs and overwrites the snapshot; so a request made
\* after a conversation file was added to the directory is not answered with
\* a snapshot computed without that file.
C16_SnapshotServedIffCurrent ==
    /\ ServedIffCurrent
    /\ RecomputedAndOverwritten
    /\ ServedCoversDirectory

\* The request named an existing project whose conversation files could all
\* be read.
LogsWereReadable ==
    /\ StatsAnswered
    /\ statsResponse.projectId \in DiskProjects
    /\ AllReadable(JsonlFiles(statsResponse.files))

SnapshotWasUnusable ==
    statsResponse.snapshotAtArrival.state \in {"missing", "unreadable", "corrupt"}

AnsweredFromLogs ==
    /\ statsResponse.from = "logs"
    /\ statsResponse.body =
          StatsOk(ComputeStats(statsResponse.projectId, statsResponse.files))

\* C17: getProjectStats never answers with an error because of the snapshot:
\* when the logs of the project can be read the response is a success; a
\* missing, unreadable or corrupt snapshot leads to the statistics computed
\* from the logs, and when the snapshot cannot be written the response still
\* holds the statistics just computed.
C17_SnapshotNeverFails ==
    LogsWereReadable =>
        /\ statsResponse.body.status = 200
        /\ SnapshotWasUnusable => AnsweredFromLogs
        /\ (statsResponse.from = "logs" /\ ~statsResponse.written) => AnsweredFromLogs

\* A request finds a corrupt snapshot beside four conversation files, one of
\* them blank; the write of the new snapshot fails, and the response holds the
\* statistics of the files while the corrupt snapshot stays on disk.
C17_Witness ==
    /\ LogsWereReadable
    /\ statsResponse.snapshotAtArrival.state = "corrupt"
    /\ ~statsResponse.written
    /\ statsResponse.snapshotAfter.state = "corrupt"
    /\ statsResponse.files = <<FileBlank, FileB, FileC, FileBad>>
    /\ statsResponse.body.status = 200
    /\ statsResponse.body.stats.totalConversations = 3
    /\ statsResponse.body.stats.totalMessages = 3
    /\ statsResponse.body.stats.totalToolCalls = 2
    /\ statsResponse.body.stats.totalTokensEstimate = 8 + 17 + 38

\* A snapshot that cannot be read, although as recent as the directory, is
\* not served.
C17_WitnessUnreadable ==
    /\ LogsWereReadable
    /\ statsResponse.snapshotAtArrival.state = "unreadable"
    /\ statsResponse.snapshotAtArrival.mtime >= statsResponse.dirMtimeAtArrival
    /\ AnsweredFromLogs
    /\ statsResponse.written
    /\ statsResponse.snapshotAfter.state = "ok"

(***************************************************************************)
(* Properties of the conversation list route (SpecList).                   *)
(***************************************************************************)
ListAnswered == listResponse # NoValue

\* The files of a directory that can be read.
ReadableFiles(files) == SelectSeq(files, IsReadable)

\* C18: when a conversation file of an existing project cannot be read,
\* listConversations and getProjectStats still succeed and return what the
\* other files of the project give, omitting only that conversation.
C18_UnreadableFileOmitted ==
    /\ (ListAnswered /\ listResponse.projectId \in DiskProjects) =>
          listResponse.body =
              ListOk(SortConversations(
                  ListFiles(JsonlFiles(ReadableFiles(listResponse.files)),
                            listResponse.projectId, listResponse.now)))
    /\ (StatsAnswered /\ statsResponse.projectId \in DiskProjects
                      /\ statsResponse.from # "snapshot") =>
          statsResponse.body =
              StatsOk(ComputeStats(statsResponse.projectId,
                                   ReadableFiles(statsResponse.files)))

\* The uuids of a sequence of messages, in order.
Uuids(msgs) == [i \in 1..Len(msgs) |-> msgs[i].uuid]

\* The valid user / assistant / system records of a file, in log order.
ValidMessages(file) == SelectSeq(file.lines, IsMessageLine)

HasValidRecord(file) == \E i \in 1..Len(file.lines) : IsRecord(file.lines[i])

\* The response lists the conversation of the file with every valid message
\* of the file, in log order.
ListedWhole(file) ==
    \E i \in 1..Len(listResponse.body.conversations) :
        /\ listResponse.body.conversations[i].id = Basename(file.name)
        /\ Uuids(listResponse.body.conversations[i].messages) =
              Uuids(ValidMessages(file))

\* C19: an unparsable line of a conversation file, the first line included,
\* removes at most that record: every conversation file holding a valid
\* record is listed, with all its valid messages in log order.
C19_BadLineRemovesOneRecord ==
    (ListAnswered /\ listResponse.body.status = 200) =>
        \A i \in 1..Len(listResponse.files) :
            (IsJsonlFile(listResponse.files[i]) /\ HasValidRecord(listResponse.files[i]))
                => ListedWhole(listResponse.files[i])

(***************************************************************************)
(* Properties of the statistics aggregation (SpecStats).                   *)
(***************************************************************************)
IsSystemLine(line) == IsRecord(line) /\ line.type = "system"

RECURSIVE SystemRecords(_)
\* The number of valid system records in the conversation files of a directory.
SystemRecords(files) ==
    IF files = <<>> THEN 0
    ELSE Len(SelectSeq(Head(files).lines, IsSystemLine)) + SystemRecords(Tail(files))

\* What one line adds to totalMessages is what it adds to the user and
\* assistant counters, plus one when it is a system record.
CountedWhole(p, line) ==
    LET counted == CountLine(NewPass(p), line).stats
    IN  counted.totalMessages =
            counted.totalUserMessages + counted.totalAssistantMessages
                + (IF IsSystemLine(line) THEN 1 ELSE 0)

\* C20: the aggregation counts every log line atomically: a line updates all
\* the counters it pertains to or none, so in the statistics computed from
\* the logs totalMessages is the sum of the user, assistant and system
\* message counts.
C20_LineCountedAtomically ==
    FromLogs =>
        /\ \A i \in 1..Len(statsResponse.files) :
              \A k \in 1..Len(statsResponse.files[i].lines) :
                  IsJsonlFile(statsResponse.files[i]) =>
                      CountedWhole(statsResponse.projectId,
                                   statsResponse.files[i].lines[k])
        /\ statsResponse.body.stats.totalMessages =
              statsResponse.body.stats.totalUserMessages
                  + statsResponse.body.stats.totalAssistantMessages
                  + SystemRecords(JsonlFiles(statsResponse.files))

RECURSIVE FilesWithValidRecord(_)
\* The number of conversation files holding at least one line that parses.
FilesWithValidRecord(files) ==
    IF files = <<>> THEN 0
    ELSE (IF HasValidRecord(Head(files)) THEN 1 ELSE 0)
            + FilesWithValidRecord(Tail(files))

\* C21: in the statistics computed from the logs a conversation file counts
\* in totalConversations exactly when at least one of its lines parses as a
\* record; a file in which no line parses contributes 0.
C21_OnlyValidFilesCounted ==
    FromLogs =>
        statsResponse.body.stats.totalConversations =
            FilesWithValidRecord(JsonlFiles(statsResponse.files))

(***************************************************************************)
(* Properties of the project search route under both modes                 *)
(* (SpecSearchMode).                                                       *)
(***************************************************************************)
\* The response body a search of the index under the given mode gives.
ResultsUnderMode(p, index, query, mode) ==
    LET found == search(index.entries, index.conversationMap, query, mode)
    IN  [i \in 1..Len(found) |-> FormatResult(p, found[i])]

\* The handler searched an index for the request.
Searched == response.body.status = 200 /\ response.index # NoValue

\* C22: project-scoped search evaluates the query under the mode of the
\* request: the results of a request with mode=regex are those of the
\* token-AND partial match and the results of a request with mode=exact
\* those of the whole-phrase word-boundary match.
C22_ModeOfRequestUsed ==
    Searched =>
        response.body.results =
            ResultsUnderMode(response.projectId, response.index,
                             response.query, response.mode)

(***************************************************************************)
(* Claims about the global search route.                                   *)
(***************************************************************************)
GlobalSearched == globalResponse # NoValue /\ ~IsBlankQuery(globalResponse.query)

\* The conversation a result or a response entry is about.
ResultKey(r) == <<r.projectId, r.conversationId>>
EntryKey(e) == <<e.conversation.projectId, e.conversation.id>>

\* The conversations that matched, as the file passes reported them, and
\* the conversations of the response.
MatchedKeys == { ResultKey(globalResponse.allResults[i]) :
                    i \in 1..Len(globalResponse.allResults) }
ReturnedKeys == { EntryKey(globalResponse.body.results[i]) :
                    i \in 1..Len(globalResponse.body.results) }

\* C23: the global search returns at most 50 results, they are distinct
\* matched conversations with their own match counts, no omitted
\* conversation has a higher match count than a returned one, nothing is
\* omitted while there is room, and `limited` is true exactly when more than
\* 50 conversations matched.
C23_TopFiftyAndLimited ==
    GlobalSearched =>
        LET all == globalResponse.allResults
            results == globalResponse.body.results
        IN  /\ Len(results) <= ResultLimit
            /\ Len(results) = Min(ResultLimit, Len(all))
            /\ Cardinality(ReturnedKeys) = Len(results)
            /\ \A i \in 1..Len(results) :
                  \E j \in 1..Len(all) :
                      /\ ResultKey(all[j]) = EntryKey(results[i])
                      /\ all[j].matchCount = results[i].matchCount
            /\ \A j \in 1..Len(all) :
                  ResultKey(all[j]) \notin ReturnedKeys =>
                      \A i \in 1..Len(results) :
                          all[j].matchCount <= results[i].matchCount
            /\ globalResponse.body.limited <=> (Cardinality(MatchedKeys) > ResultLimit)

\* More than 50 conversations matched with different counts: 50 are
\* returned, the flag is set and a conversation with fewer matches is left out.
C23_Witness ==
    /\ GlobalSearched
    /\ Cardinality(MatchedKeys) > ResultLimit
    /\ Len(globalResponse.body.results) = ResultLimit
    /\ globalResponse.body.limited
    /\ globalResponse.body.results[1].matchCount > 1
    /\ \E j \in 1..Len(globalResponse.allResults) :
          /\ ResultKey(globalResponse.allResults[j]) \notin ReturnedKeys
          /\ globalResponse.allResults[j].matchCount
                < globalResponse.body.results[1].matchCount

\* Exactly 50 conversations matched: all are returned and the flag is unset.
C23_WitnessExactlyFifty ==
    /\ GlobalSearched
    /\ Cardinality(MatchedKeys) = ResultLimit
    /\ Len(globalResponse.body.results) = ResultLimit
    /\ ~globalResponse.body.limited

\* The file passes of every project completing in directory order.
DirectoryOrders(files) ==
    [p \in DiskProjects |-> [i \in 1..Len(JsonlFiles(files[p])) |-> i]]

\* The entries are in descending order of match count.
SortedByMatchCount ==
    \A i \in 1..(Len(globalResponse.body.results) - 1) :
        globalResponse.body.results[i].matchCount
            >= globalResponse.body.results[i + 1].matchCount

\* C24: the merged results are sorted by match count, ties by lastUpdated,
\* so the returned list is the one the route returns when the file passes
\* complete in directory order, whatever order they completed in.
C24_OrderIndependentOfCompletion ==
    GlobalSearched =>
        /\ SortedByMatchCount
        /\ globalResponse.body.results =
              GlobalBody(AllResults(globalResponse.files, globalResponse.query,
                                    globalResponse.mode,
                                    DirectoryOrders(globalResponse.files)),
                         globalResponse.now).results

(***************************************************************************)
(* Claims about the search of the pages.                                   *)
(***************************************************************************)
\* A fetch in flight is older than the query issued last: handleSearch has
\* numbered a request after it.
IsOlder(f) ==
    IF f.guarded THEN f.id < page.requestId ELSE page.requestId >= 1

\* The step is the completion of the fetch f.
Completes(f) == f \in page.fetches /\ page'.fetches = page.fetches \ {f}

\* The completion of an older fetch leaves the results as they were, or
\* empty, or they are the results of the query issued last.
OlderLeavesResults(f) ==
    (Completes(f) /\ IsOlder(f)) =>
        \/ page'.searchResults = page.searchResults
        \/ page'.searchResults = NoValue
        \/ page'.searchResults = page.issued

\* C25: once a newer query has been issued, the completion of an older
\* search in flight does not put its results on the page: the results stay
\* those of the query issued last, or empty.
C25_OlderSearchNeverOverwrites ==
    [][\A f \in page.fetches : OlderLeavesResults(f)]_vars

\* The same on the Project page alone, whose every fetch carries a request
\* id and an abort signal.
ProjectPageNeverOverwritten ==
    [][page.kind = "project" => \A f \in page.fetches : OlderLeavesResults(f)]_vars

\* An older search of the Project page completed after a newer one was
\* issued, and the results are those of the newer one.
ProjectPageSuperseded ==
    /\ page.kind = "project"
    /\ page.requestId >= 2
    /\ page.fetches = {}
    /\ page.searchResults = page.issued
    /\ page.searchResults # NoValue

\* C28: after the edits of the user have ended the `searching` flag of the
\* page becomes false and stays false.
C28_SearchingEventuallyFalse == <>[](~page.searching)

\* The flag is set while no timer is armed and no fetch is in flight.
SearchingStuck ==
    /\ page.searching
    /\ ~bar.timer
    /\ page.fetches = {}

\* C26: a snapshot that is served does not omit a conversation file that was
\* added to the directory while the pass that wrote the snapshot was running
\* and that the directory still holds.
C26_NoSnapshotOmitsFileAddedDuringPass ==
    FromSnapshot =>
        statsResponse.snapshotAtArrival.addedDuring \cap ConversationFilesSeen = {}

(***************************************************************************)
(* Claim about overlapping builds of ProjectSearchIndex.                   *)
(***************************************************************************)
\* The index is the one a single buildIndex call on the input leaves.
IsIndexOf(convs) ==
    /\ psiEntries = processBatch(convs).entries
    /\ psiConversationMap = processBatch(convs).conversationMap

\* C27: when every buildIndex call has resolved, the index holds the
\* entries of one input, whether or not the calls overlapped.
C27_IndexOfOneInput ==
    psiPending = <<>> => \E convs \in PsiInputs : IsIndexOf(convs)

(***************************************************************************)
(* The conversation statistics route, GET /api/conversations/[id]/stats,   *)
(* as far as it counts sidechain messages.                                 *)
(***************************************************************************)
\* One iteration of the line loop on the counter sidechainMessages. A
\* message record without a valid timestamp indexes messageTimeline with
\* NaN, which throws, and the catch skips the rest of the record.
CountSidechainLine(count, line) ==
    IF line.kind # "rec" THEN count
    ELSE IF IsMessageType(line.type) /\ ~IsValidDate(line.timestamp) THEN count
    ELSE IF (line.type = "user" \/ line.type = "assistant") /\ line.isSidechain
    THEN count + 1
    ELSE count

RECURSIVE sidechainMessages(_)
\* stats.sidechainMessages after the loop over the lines of the file.
sidechainMessages(lines) ==
    IF lines = <<>> THEN 0
    ELSE CountSidechainLine(sidechainMessages(SubSeq(lines, 1, Len(lines) - 1)),
                            lines[Len(lines)])

\* The user and assistant messages of a parsed conversation that are tagged
\* isSidechain.
TaggedSidechain(msgs) ==
    Cardinality({ i \in 1..Len(msgs) :
                    /\ msgs[i].type = "user" \/ msgs[i].type = "assistant"
                    /\ msgs[i].isSidechain })

\* C29: for the same log, the sidechainMessages of the conversation
\* statistics equal the number of user and assistant messages that
\* parseConversationStream tags isSidechain.
C29_SidechainCountsAgree ==
    pc = "done" => sidechainMessages(log) = TaggedSidechain(conversation.messages)

(***************************************************************************)
(* Claim about useKeyboardNavigation.                                      *)
(***************************************************************************)
\* C30: onEnter and onSelect are called only with an index of the current
\* list: 0 <= index < itemCount.
C30_CallbackIndexInRange ==
    \A i \in 1..Len(nav.calls) :
        nav.calls[i].index >= 0 /\ nav.calls[i].index < nav.calls[i].itemCount

\* The same for the calls of onSelect alone, which only the effect makes.
OnSelectIndexInRange ==
    \A i \in 1..Len(nav.calls) :
        nav.calls[i].fn = "onSelect" =>
            nav.calls[i].index >= 0 /\ nav.calls[i].index < nav.calls[i].itemCount
====
